---- MODULE Spec2Model ----
(***************************************************************************)
(* Model of the summary cache refresh of 10minutesaday.                    *)
(*                                                                         *)
(*   src/summarizer.py   update_summaries, HNSummarizer (fetch_item,       *)
(*                       fetch_comments, process_gpt_response,             *)
(*                       summarize_comments, get_cached_summaries)         *)
(*   src/main.py         run_update, trigger_update and the read handlers  *)
(*   src/application.py  create_app (startup refresh, daily cron job)      *)
(*   src/database.py     init_db (the tables of a new database)            *)
(*                                                                         *)
(* The SQLite file is the record db: three table slots and the single row  *)
(* of last_update.  Every statement runs in its own transaction, as each   *)
(* `with get_db() as conn` block does; the table swap is the one           *)
(* multi-statement transaction.  A statement fails when the schema does    *)
(* not allow it (missing or clashing table name); in addition any          *)
(* statement of the swap may fail with an injected storage error.          *)
(*                                                                         *)
(* Time is a clock of ticks, TicksPerDay ticks making the 24 hours of the  *)
(* read filter and of the cron period.                                     *)
(*                                                                         *)
(* Specifications:                                                         *)
(*   Spec           the refresh cycles, their callers and the read handlers*)
(*   SpecLongList   the cycles of the serving app when the remote's top list is  *)
(*                  longer than MAX_STORIES                                *)
(*   SpecRepeats    the cycles of the serving app when the remote's top    *)
(*                  list names a story more than once                      *)
(*   SpecComments   fetch_item and fetch_comments over a remote comment    *)
(*                  tree                                                   *)
(*   SpecPool       fetch_comments task by task, the tasks of its worker pool   *)
(*                  starting and finishing in any order                    *)
(*   SpecCitations  summarize_comments and process_gpt_response over what  *)
(*                  the LLM may write, texts being sequences of characters *)
(*   SpecLoop       one cycle from its loop on, each story's summary       *)
(*                  followed call by call up to the swap                   *)
(*   SpecNoTimeout  that cycle with a remote that may never answer, under  *)
(*                  weak fairness of the runner's steps                    *)
(*   SpecSnapshot   that cycle request by request, the story gathering     *)
(*                  points and comments meanwhile                          *)
(*   SpecArticle    summarize_comments from the extraction of the story's  *)
(*                  article on                                             *)
(*   SpecMalformed  summarize_comments when the LLM writes a citation      *)
(*                  group with an entry that is not a number               *)
(*   SpecMigration  init_db over the runs of the program, on no file or on *)
(*                  the file of an older version                           *)
(***************************************************************************)
EXTENDS Integers, Sequences, FiniteSets, TLC

\* ------------------------------------------------------------------ bounds
\* The clock stops at MaxNow.
MaxNow == 1
\* Ticks in 24 hours.
TicksPerDay == 1
\* Story ids the remote API can name are 1..MaxStoryId.
MaxStoryId == 2
\* Executions of update_summaries started in one run of the program.
MaxCycles == 3

\* self.MAX_STORIES (30 in the source), scaled to the model's story ids.
MAX_STORIES == 2

\* Comments of the story a call of fetch_comments is about: ids 1..MaxComments.
MaxComments == 3
\* self.MAX_COMMENTS_PER_STORY (200 in the source), scaled to the model's comments.
MAX_COMMENTS_PER_STORY == 2
\* self.MAX_WORKERS (5 in the source), scaled to the model's comments.
MAX_WORKERS == 2
\* Citation markers the LLM writes in a row, or numbers in one parenthetical group.
MaxCitations == 2
\* The length of the texts the LLM writes out of the characters of markers.
MaxPlain == 3

StoryIds == 1..MaxStoryId

\* ------------------------------------------------------------------ processes
\* A thread started by trigger_update, one per request handler of the model.
ThreadOrder == <<"thread1", "thread2">>
Threads == {ThreadOrder[i] : i \in DOMAIN ThreadOrder}
\* Everything that executes update_summaries.
Runners == {"startup", "cron"} \cup Threads

VARIABLES
    now,               \* the clock, datetime('now')
    db,                \* the SQLite file summaries.db
    is_updating,       \* src/main.py global
    phase,             \* "startup" while create_app runs, then "serving"
    pc,                \* per runner: where its update_summaries stands
    stories,           \* per runner: the local `stories`
    position,          \* per runner: the loop index of enumerate(stories)
    processed_stories, \* per runner: the local counter
    staged,            \* per runner: the records its current cycle inserted (history)
    handler,           \* per request handler of trigger_update: "idle" or "checked"
    cron_last,         \* the tick of the last cron trigger
    cycles,            \* executions of update_summaries started so far (history)
    http_response      \* the response of the HTTP handler that ran last, if the last step was one

cycleVars == <<now, db, is_updating, phase, pc, stories, position, processed_stories,
               staged, handler, cron_last, cycles, http_response>>

\* One story's comments, fetched, flattened and summarized (fetch_item,
\* fetch_comments, summarize_comments).
VARIABLES
    hn,                \* the remote API: what it answers for each item id
    item,              \* what the last call of fetch_item did
    comments,          \* what the last call of fetch_comments did
    llm_calls,         \* the LLM calls summarize_comments has made, in order
    final_summary,     \* the text the citation call wrote
    written,           \* how the LLM put that text together (history)
    summary,           \* what the call of summarize_comments did
    pool,              \* the executor of fetch_comments: its futures, and the order
                       \* in which its tasks started and finished (history)
    requests,          \* the item ids the call of fetch_comments has requested (history)
    article            \* what summarize_comments got out of the story's URL

storyVars == <<hn, item, comments, llm_calls, final_summary, written, summary,
               pool, requests, article>>

vars == <<now, db, is_updating, phase, pc, stories, position, processed_stories,
          staged, handler, cron_last, cycles, http_response, storyVars>>

\* ------------------------------------------------------------------ sequences
Range(s) == {s[i] : i \in DOMAIN s}

\* s[:n]
Take(s, n) == SubSeq(s, 1, IF Len(s) < n THEN Len(s) ELSE n)

\* Lists of pairwise distinct story ids, as topstories.json returns them.
DistinctSeqs(S) ==
    {s \in UNION {[1..n -> S] : n \in 0..Cardinality(S)} :
        \A i, j \in DOMAIN s : i # j => s[i] # s[j]}

\* ------------------------------------------------------------------ tables
Absent == [exists |-> FALSE, rows |-> {}]
Table(rows) == [exists |-> TRUE, rows |-> rows]

\* The result of a statement: whether it succeeded, and the database after it.
Ok(d) == [ok |-> TRUE, db |-> d]
Failed(d) == [ok |-> FALSE, db |-> d]

\* CREATE TABLE IF NOT EXISTS name
CreateTableIfNotExists(d, name) ==
    IF d[name].exists THEN Ok(d) ELSE Ok([d EXCEPT ![name] = Table({})])

\* ALTER TABLE from RENAME TO to
RenameTable(d, from, to) ==
    IF d[from].exists /\ ~d[to].exists
    THEN Ok([d EXCEPT ![to] = d[from], ![from] = Absent])
    ELSE Failed(d)

\* DROP TABLE name
DropTable(d, name) ==
    IF d[name].exists THEN Ok([d EXCEPT ![name] = Absent]) ELSE Failed(d)

\* DROP TABLE IF EXISTS name
DropTableIfExists(d, name) == Ok([d EXCEPT ![name] = Absent])

\* INSERT OR REPLACE INTO name: story_id is the primary key.
InsertOrIgnore(d, name, rec) ==
    IF d[name].exists
    THEN Ok([d EXCEPT ![name].rows =
                IF \E r \in @ : r.story_id = rec.story_id THEN @ ELSE @ \cup {rec}])
    ELSE Failed(d)
InsertOrReplace(d, name, rec) ==
    IF d[name].exists
    THEN Ok([d EXCEPT ![name].rows =
                {r \in @ : r.story_id # rec.story_id} \cup {rec}])
    ELSE Failed(d)

\* UPDATE last_update SET last_updated = datetime('now') WHERE id = 1
UpdateLastUpdate(d, t) == Ok([d EXCEPT !.last_updated = t])


\* ------------------------------------------------------------------ the table swap
\* The statements of the swap transaction, in order (BEGIN is the transaction's start).
SwapStatements ==
    <<"rename_summaries", "rename_temp", "drop_old", "update_last_update", "commit">>

\* One statement of the swap, on the transaction's working copy.
SwapStatement(d, k, t) ==
    CASE SwapStatements[k] = "rename_summaries" -> RenameTable(d, "summaries", "summaries_old")
      [] SwapStatements[k] = "rename_temp" -> RenameTable(d, "summaries_temp", "summaries")
      [] SwapStatements[k] = "drop_old" -> DropTable(d, "summaries_old")
      [] SwapStatements[k] = "update_last_update" -> UpdateLastUpdate(d, t)
      [] OTHER -> Ok(d)

\* The statements from the k-th on; failAt is the statement the storage fails (0: none).
\* The first failure ends the try block with the working copy as it stands.
RECURSIVE RunSwap(_, _, _, _)
RunSwap(d, k, failAt, t) ==
    IF k > Len(SwapStatements) THEN Ok(d)
    ELSE IF k = failAt THEN Failed(d)
    ELSE LET res == SwapStatement(d, k, t)
         IN  IF res.ok THEN RunSwap(res.db, k + 1, failAt, t) ELSE res

\* ROLLBACK: the database as it was at BEGIN TRANSACTION.
RollbackKeepsWork(before, work) == work
Rollback(before, work) == before

\* The database after the `with` block of the swap.
SwapResultTouchingMarker(d, failAt, t) ==
    LET res == RunSwap(d, 1, failAt, t)
    IN  IF res.ok THEN res ELSE Failed(UpdateLastUpdate(Rollback(d, res.db), t).db)
SwapResult(d, failAt, t) ==
    LET res == RunSwap(d, 1, failAt, t)
    IN  IF res.ok THEN res ELSE Failed(Rollback(d, res.db))

\* ------------------------------------------------------------------ reads
\* WHERE created_at > datetime('now', '-24 hours')
Fresh(rows, t) == {r \in rows : r.created_at > t - TicksPerDay}

\* ORDER BY position ASC: every order of the rows that is ascending in position.
OrderedByPosition(rows) ==
    {s \in [1..Cardinality(rows) -> rows] :
        /\ Range(s) = rows
        /\ \A i, j \in DOMAIN s : i < j => s[i].position <= s[j].position}

\* What get_cached_summaries can return.
CachedSummaries(d, t) ==
    IF d.summaries.exists THEN OrderedByPosition(Fresh(d.summaries.rows, t)) ELSE {}

\* ------------------------------------------------------------------ responses
NoResponse == [kind |-> "none", status |-> "none", body |-> <<>>]
Response(kind, status, body) == [kind |-> kind, status |-> status, body |-> body]

\* ------------------------------------------------------------------ one story
\* No call of fetch_item or fetch_comments is being followed.
NoCall == [called |-> FALSE]
StoryIdle ==
    /\ hn = <<>>
    /\ item = NoCall
    /\ comments = NoCall
    /\ llm_calls = <<>>
    /\ final_summary = <<>>
    /\ written = NoCall
    /\ summary = NoCall
    /\ pool = NoCall
    /\ requests = {}
    /\ article = NoCall

\* ------------------------------------------------------------------ initial state
\* init_db on a new database, then create_app about to call update_summaries.
CycleInit ==
    /\ now = 0
    /\ db = [summaries |-> Table({}), summaries_temp |-> Absent, summaries_old |-> Absent,
             last_updated |-> 0 - TicksPerDay]
    /\ is_updating = FALSE
    /\ phase = "startup"
    /\ pc = [r \in Runners |-> IF r = "startup" THEN "create" ELSE "idle"]
    /\ stories = [r \in Runners |-> <<>>]
    /\ position = [r \in Runners |-> 0]
    /\ processed_stories = [r \in Runners |-> 0]
    /\ staged = [r \in Runners |-> {}]
    /\ handler = [h \in Threads |-> "idle"]
    /\ cron_last = 0
    /\ cycles = 1
    /\ http_response = NoResponse

Init ==
    /\ CycleInit
    /\ StoryIdle

\* ------------------------------------------------------------------ update_summaries
\* fetch_top_stories: the remote list cut to MAX_STORIES, or [] on any failure.
TopStories == {Take(remote, MAX_STORIES) : remote \in DistinctSeqs(StoryIds)}

\* CREATE TABLE IF NOT EXISTS summaries_temp, then stories = fetch_top_stories()
\* (a remote call that touches nothing shared) and the loop's locals.
CreateTempFrom(r, tops) ==
    /\ pc[r] = "create"
    /\ db' = CreateTableIfNotExists(db, "summaries_temp").db
    /\ \E top \in tops : stories' = [stories EXCEPT ![r] = top]
    /\ position' = [position EXCEPT ![r] = 0]
    /\ processed_stories' = [processed_stories EXCEPT ![r] = 0]
    /\ staged' = [staged EXCEPT ![r] = {}]
    /\ pc' = [pc EXCEPT ![r] = "loop"]
    /\ http_response' = NoResponse
    /\ UNCHANGED <<now, is_updating, phase, handler, cron_last, cycles>>
    /\ UNCHANGED storyVars

CreateTemp(r) == CreateTempFrom(r, TopStories)

\* The record the loop body inserts for the story at index i of the list.
StagedRecord(r, i) ==
    [story_id |-> stories[r][i + 1], position |-> i, created_at |-> now]

\* `continue` in the except clause of the loop body: on to the next index of a list
\* of n stories.
BreakLoop(i, n) == n
Continue(i, n) == i + 1

\* One iteration of the loop over enumerate(stories).  fetch_item may return None
\* (the story is skipped without an exception); fetch_comments or
\* summarize_comments may raise; the INSERT raises when summaries_temp is gone.
ProcessStory(r) ==
    /\ pc[r] = "loop"
    /\ position[r] < Len(stories[r])
    /\ \E fetched \in BOOLEAN, raised \in BOOLEAN :
         LET res == InsertOrReplace(db, "summaries_temp", StagedRecord(r, position[r]))
         IN  IF fetched /\ ~raised /\ res.ok
             THEN /\ db' = res.db
                  /\ processed_stories' = [processed_stories EXCEPT ![r] = @ + 1]
                  /\ staged' = [staged EXCEPT ![r] = @ \cup {StagedRecord(r, position[r])}]
                  /\ position' = [position EXCEPT ![r] = @ + 1]
             ELSE /\ position' = [position EXCEPT ![r] = Continue(@, Len(stories[r]))]
                  /\ UNCHANGED <<db, processed_stories, staged>>
    /\ http_response' = NoResponse
    /\ UNCHANGED <<now, is_updating, phase, pc, stories, handler, cron_last, cycles>>
    /\ UNCHANGED storyVars

\* if processed_stories > 0: the swap transaction.  On failure the except clause
\* rolls back and re-raises into the outer handler.
SwapTables(r) ==
    /\ pc[r] = "loop"
    /\ position[r] = Len(stories[r])
    /\ processed_stories[r] > 0
    /\ \E failAt \in 0..Len(SwapStatements) :
         LET res == SwapResult(db, failAt, now)
         IN  /\ db' = res.db
             /\ pc' = [pc EXCEPT ![r] = IF res.ok THEN "published" ELSE "cleanup"]
    /\ stories' = [stories EXCEPT ![r] = <<>>]
    /\ staged' = [staged EXCEPT ![r] = {}]
    /\ http_response' = NoResponse
    /\ UNCHANGED <<now, is_updating, phase, position, processed_stories,
                   handler, cron_last, cycles>>
    /\ UNCHANGED storyVars

\* The database after the else branch: DROP TABLE IF EXISTS summaries_temp.
NoStoriesClearingSummaries(d, t) ==
    UpdateLastUpdate([DropTableIfExists(d, "summaries_temp").db
                         EXCEPT !.summaries = Table({})], t).db
NoStoriesResult(d, t) == DropTableIfExists(d, "summaries_temp").db

\* else: DROP TABLE IF EXISTS summaries_temp, and the function returns.
DropTempNoStories(r) ==
    /\ pc[r] = "loop"
    /\ position[r] = Len(stories[r])
    /\ processed_stories[r] = 0
    /\ db' = NoStoriesResult(db, now)
    /\ pc' = [pc EXCEPT ![r] = "aborted"]
    /\ stories' = [stories EXCEPT ![r] = <<>>]
    /\ staged' = [staged EXCEPT ![r] = {}]
    /\ http_response' = NoResponse
    /\ UNCHANGED <<now, is_updating, phase, position, processed_stories,
                   handler, cron_last, cycles>>
    /\ UNCHANGED storyVars

\* The outer except: DROP TABLE IF EXISTS summaries_temp, then raise.
Cleanup(r) ==
    /\ pc[r] = "cleanup"
    /\ db' = DropTableIfExists(db, "summaries_temp").db
    /\ pc' = [pc EXCEPT ![r] = "aborted"]
    /\ http_response' = NoResponse
    /\ UNCHANGED <<now, is_updating, phase, stories, position, processed_stories,
                   staged, handler, cron_last, cycles>>
    /\ UNCHANGED storyVars

\* update_summaries has returned or raised: its locals are gone.
Returned(r) ==
    /\ pc[r] \in {"published", "aborted"}
    /\ pc' = [pc EXCEPT ![r] = "idle"]
    /\ stories' = [stories EXCEPT ![r] = <<>>]
    /\ position' = [position EXCEPT ![r] = 0]
    /\ processed_stories' = [processed_stories EXCEPT ![r] = 0]
    /\ staged' = [staged EXCEPT ![r] = {}]
    /\ http_response' = NoResponse

\* ------------------------------------------------------------------ callers
\* create_app: the initial update is over (its exception is logged), the cron job is
\* added, the scheduler started and the app returned.
CreateAppServe ==
    /\ phase = "startup"
    /\ Returned("startup")
    /\ phase' = "serving"
    /\ cron_last' = now
    /\ UNCHANGED <<now, db, is_updating, handler, cycles>>
    /\ UNCHANGED storyVars

\* The cron job (hour=6, minute=0): once a day, and not while its previous run lasts.
CronJobStart ==
    /\ phase = "serving"
    /\ pc["cron"] = "idle"
    /\ now % TicksPerDay = 0
    /\ now > cron_last
    /\ cycles + Cardinality({g \in Threads : handler[g] = "checked"}) < MaxCycles
    /\ cycles' = cycles + 1
    /\ cron_last' = now
    /\ pc' = [pc EXCEPT !["cron"] = "create"]
    /\ http_response' = NoResponse
    /\ UNCHANGED <<now, db, is_updating, phase, stories, position, processed_stories,
                   staged, handler>>
    /\ UNCHANGED storyVars

CronJobEnd ==
    /\ Returned("cron")
    /\ UNCHANGED <<now, db, is_updating, phase, handler, cron_last, cycles>>
    /\ UNCHANGED storyVars

\* A request is served by the first handler that is free and whose thread is over.
IsFree(h) == handler[h] = "idle" /\ pc[h] = "idle"
FreeHandler ==
    IF \E i \in DOMAIN ThreadOrder : IsFree(ThreadOrder[i])
    THEN ThreadOrder[CHOOSE i \in DOMAIN ThreadOrder :
             /\ IsFree(ThreadOrder[i])
             /\ \A j \in DOMAIN ThreadOrder : IsFree(ThreadOrder[j]) => i <= j]
    ELSE "none"

\* trigger_update, `if is_updating:` true: 429.
TriggerUpdateConflict(h) ==
    /\ phase = "serving"
    /\ handler[h] = "idle"
    /\ is_updating
    /\ http_response' = Response("update_summaries", "error", <<>>)
    /\ UNCHANGED <<now, db, is_updating, phase, pc, stories, position, processed_stories,
                   staged, handler, cron_last, cycles>>
    /\ UNCHANGED storyVars

\* trigger_update, `if is_updating:` false: the handler goes on to line 51.
TriggerUpdateCheck(h) ==
    /\ phase = "serving"
    /\ h = FreeHandler
    /\ cycles + Cardinality({g \in Threads : handler[g] = "checked"}) < MaxCycles
    /\ ~is_updating
    /\ handler' = [handler EXCEPT ![h] = "checked"]
    /\ http_response' = NoResponse
    /\ UNCHANGED <<now, db, is_updating, phase, pc, stories, position, processed_stories,
                   staged, cron_last, cycles>>
    /\ UNCHANGED storyVars

\* trigger_update: is_updating = True, the thread is started, success is returned.
TriggerUpdateStart(h) ==
    /\ handler[h] = "checked"
    /\ is_updating' = TRUE
    /\ pc' = [pc EXCEPT ![h] = "create"]
    /\ handler' = [handler EXCEPT ![h] = "idle"]
    /\ cycles' = cycles + 1
    /\ http_response' = Response("update_summaries", "success", <<>>)
    /\ UNCHANGED <<now, db, phase, stories, position, processed_stories,
                   staged, cron_last>>
    /\ UNCHANGED storyVars

\* `finally: is_updating = False`
FlagKept(flag) == flag
FlagAfterRun(flag) == FALSE

\* run_update: update_summaries has returned or raised (the exception is logged),
\* then the finally clause.
RunUpdateFinally(t) ==
    /\ Returned(t)
    /\ is_updating' = FlagAfterRun(is_updating)
    /\ UNCHANGED <<now, db, phase, handler, cron_last, cycles>>
    /\ UNCHANGED storyVars

\* ------------------------------------------------------------------ read handlers
\* The database after a `with get_db() as conn` block that has only run a SELECT: the
\* commit on leaving the block has nothing to write.
SelectClearingSummaries(d) == [d EXCEPT !.summaries = Table({})]
AfterSelect(d) == d

\* /api/summaries
GetSummaries ==
    /\ phase = "serving"
    /\ \E result \in CachedSummaries(db, now) :
           http_response' = Response("summaries", "ok", result)
    /\ db' = AfterSelect(db)
    /\ UNCHANGED <<now, is_updating, phase, pc, stories, position, processed_stories,
                   staged, handler, cron_last, cycles>>
    /\ UNCHANGED storyVars

\* /api/update_status
GetUpdateStatus ==
    /\ phase = "serving"
    /\ http_response' = Response("update_status", "ok", <<is_updating>>)
    /\ UNCHANGED <<now, db, is_updating, phase, pc, stories, position, processed_stories,
                   staged, handler, cron_last, cycles>>
    /\ UNCHANGED storyVars

\* /api/last_update
GetLastUpdate ==
    /\ phase = "serving"
    /\ http_response' = Response("last_update", "ok", <<db.last_updated>>)
    /\ db' = AfterSelect(db)
    /\ UNCHANGED <<now, is_updating, phase, pc, stories, position, processed_stories,
                   staged, handler, cron_last, cycles>>
    /\ UNCHANGED storyVars

\* ------------------------------------------------------------------ time
Tick ==
    /\ now < MaxNow
    /\ now' = now + 1
    /\ http_response' = NoResponse
    /\ UNCHANGED <<db, is_updating, phase, pc, stories, position, processed_stories,
                   staged, handler, cron_last, cycles>>
    /\ UNCHANGED storyVars

\* ------------------------------------------------------------------ specification
Next ==
    \/ \E r \in Runners : CreateTemp(r)
    \/ \E r \in Runners : ProcessStory(r)
    \/ \E r \in Runners : SwapTables(r)
    \/ \E r \in Runners : DropTempNoStories(r)
    \/ \E r \in Runners : Cleanup(r)
    \/ CreateAppServe
    \/ CronJobStart
    \/ CronJobEnd
    \/ \E h \in Threads : TriggerUpdateConflict(h)
    \/ \E h \in Threads : TriggerUpdateCheck(h)
    \/ \E h \in Threads : TriggerUpdateStart(h)
    \/ \E t \in Threads : RunUpdateFinally(t)
    \/ GetSummaries
    \/ GetUpdateStatus
    \/ GetLastUpdate
    \/ Tick

Spec == Init /\ [][Next]_vars

\* ------------------------------------------------------------------ a long top list
\* The cycles of the serving app when the remote lists one story more than
\* MAX_STORIES: fetch_top_stories hands over the first MAX_STORIES of them.
LongTopStories ==
    {Take(remote, MAX_STORIES) :
        remote \in {s \in DistinctSeqs(1..(MAX_STORIES + 1)) : Len(s) > MAX_STORIES}}

\* create_app has returned: its startup cycle found no story and left the database
\* as init_db made it.
ServingInit ==
    /\ now = 0
    /\ db = [summaries |-> Table({}), summaries_temp |-> Absent, summaries_old |-> Absent,
             last_updated |-> 0 - TicksPerDay]
    /\ is_updating = FALSE
    /\ phase = "serving"
    /\ pc = [r \in Runners |-> "idle"]
    /\ stories = [r \in Runners |-> <<>>]
    /\ position = [r \in Runners |-> 0]
    /\ processed_stories = [r \in Runners |-> 0]
    /\ staged = [r \in Runners |-> {}]
    /\ handler = [h \in Threads |-> "idle"]
    /\ cron_last = 0
    /\ cycles = 1
    /\ http_response = NoResponse
    /\ StoryIdle

LongListNext ==
    \/ \E r \in Runners : CreateTempFrom(r, LongTopStories)
    \/ \E r \in Runners : ProcessStory(r)
    \/ \E r \in Runners : SwapTables(r)
    \/ \E r \in Runners : DropTempNoStories(r)
    \/ \E r \in Runners : Cleanup(r)
    \/ CronJobStart
    \/ CronJobEnd
    \/ \E h \in Threads : TriggerUpdateCheck(h)
    \/ \E h \in Threads : TriggerUpdateStart(h)
    \/ \E t \in Threads : RunUpdateFinally(t)
    \/ Tick

SpecLongList == ServingInit /\ [][LongListNext]_vars

\* ------------------------------------------------------------------ a list with repeats
\* The cycles of the serving app when the remote's top list may name a story more
\* than once: fetch_top_stories hands the list over as it is.
RepeatingTopStories == UNION {[1..n -> StoryIds] : n \in 0..MAX_STORIES}

RepeatsNext ==
    \/ \E r \in Runners : CreateTempFrom(r, RepeatingTopStories)
    \/ \E r \in Runners : ProcessStory(r)
    \/ \E r \in Runners : SwapTables(r)
    \/ \E r \in Runners : DropTempNoStories(r)
    \/ \E r \in Runners : Cleanup(r)
    \/ CronJobStart
    \/ CronJobEnd
    \/ \E h \in Threads : TriggerUpdateCheck(h)
    \/ \E h \in Threads : TriggerUpdateStart(h)
    \/ \E t \in Threads : RunUpdateFinally(t)
    \/ Tick

SpecRepeats == ServingInit /\ [][RepeatsNext]_vars

\* ------------------------------------------------------------------ the remote API
\* The story whose comments are fetched; its comments are among CommentIds.
StoryItem == 0
CommentIds == 1..MaxComments
ItemIds == {StoryItem} \cup CommentIds

\* Python's None.
None == [none |-> TRUE]

\* The elements of S by rank, lowest first: the order in which the remote lists the
\* replies to an item (its `kids`), which is not the order of their ids.
RECURSIVE Ranked(_, _)
Ranked(S, rank) ==
    IF S = {} THEN <<>>
    ELSE LET m == CHOOSE x \in S : \A y \in S : rank[x] <= rank[y]
         IN  <<m>> \o Ranked(S \ {m}, rank)

\* Who each of n comments replies to: the story or an older comment.
ParentFns(n) == {p \in [1..n -> {StoryItem} \cup 1..n] : \A c \in 1..n : p[c] < c}
\* The rankings of n comments.
Rankings(n) == {rank \in [1..n -> 1..n] : \A c, d \in 1..n : c # d => rank[c] # rank[d]}
FlagKinds == {"live", "deleted", "dead"}

\* The item the remote holds under id i: its `kids` are its replies.
ItemOf(p, rank, flags, i) ==
    [id |-> i,
     parent |-> IF i = StoryItem THEN StoryItem ELSE p[i],
     kids |-> Ranked({c \in DOMAIN p : p[c] = i}, rank),
     deleted |-> flags[i] = "deleted",
     dead |-> flags[i] = "dead"]

\* The remote during one call of fetch_comments: the items it holds (a story with n
\* comments, none if n = 0), and the ids whose request fails (none, or one of them).
RemotesOf(n) ==
    {[items |-> [i \in {StoryItem} \cup 1..n |-> ItemOf(p, rank, flags, i)], down |-> down] :
        p \in ParentFns(n),
        rank \in Rankings(n),
        flags \in {f \in [{StoryItem} \cup 1..n -> FlagKinds] : f[StoryItem] = "live"},
        down \in {{}} \cup {{i} : i \in {StoryItem} \cup 1..n}}
Remotes == UNION {RemotesOf(n) : n \in 0..MaxComments}

\* The comments a remote holds.
CommentsOf(remote) == DOMAIN remote.items \ {StoryItem}

\* What requests.get can do: raise, or answer with a status code and a body that is
\* a JSON object (an item), the JSON null, another JSON value, or no JSON at all.
StatusCodes == {200, 404}
Bodies == {"object", "null", "array", "invalid"}
NetworkError == [raises |-> TRUE, status_code |-> 0, body |-> "invalid", data |-> None]
HttpAnswer(status_code, body, it) ==
    [raises |-> FALSE, status_code |-> status_code, body |-> body,
     data |-> IF body = "object" THEN it ELSE None]
Answers(it) ==
    {NetworkError} \cup {HttpAnswer(sc, b, it) : sc \in StatusCodes, b \in Bodies}

\* The answer to the request for item i during a call of fetch_comments.
AnswerOf(remote, i) ==
    IF i \in remote.down THEN NetworkError ELSE HttpAnswer(200, "object", remote.items[i])

\* ------------------------------------------------------------------ fetch_item
Return(v) == [raised |-> FALSE, value |-> v]
Raise == [raised |-> TRUE, value |-> None]

\* The try block: response.json() raises on a body that is not JSON, and data.get
\* (in the log line) raises on a decoded value that is not a dict.
FetchItemTry(answer) ==
    IF answer.raises THEN Raise
    ELSE IF answer.status_code = 200
         THEN IF answer.body = "object" THEN Return(answer.data) ELSE Raise
         ELSE Return(None)

\* except Exception: return None
NoExcept(res) == res
ExceptReturnNone(res) == IF res.raised THEN Return(None) ELSE res

fetch_item(answer) == ExceptReturnNone(FetchItemTry(answer))

\* ------------------------------------------------------------------ fetch_comments
\* s without its None entries.
Truthy(s) == SelectSeq(s, LAMBDA x : x # None)

\* `comment.get('deleted') or comment.get('dead')`
DiscardedIfDeleted(comment) == comment.deleted
Discarded(comment) == comment.deleted \/ comment.dead

\* The depth of the replies to a comment at the given depth: depth + 1.
SameDepth(depth) == depth
ChildDepth(depth) == depth + 1

\* fetch_comment_tree: the comment with its depth and its surviving replies, or None.
RECURSIVE fetch_comment_tree(_, _, _)
fetch_comment_tree(remote, comment_id, depth) ==
    LET comment == fetch_item(AnswerOf(remote, comment_id)).value
    IN  IF comment = None \/ Discarded(comment) THEN None
        ELSE [id |-> comment.id,
              parent |-> comment.parent,
              depth |-> depth,
              replies |-> Truthy([k \in DOMAIN comment.kids |->
                             fetch_comment_tree(remote, comment.kids[k], ChildDepth(depth))])]

\* flatten_thread: the comment, then its replies' threads, in order.
RECURSIVE flatten_thread(_)
flatten_thread(comment) ==
    LET RECURSIVE Replies(_)
        Replies(rs) ==
            IF rs = <<>> THEN <<>> ELSE flatten_thread(Head(rs)) \o Replies(Tail(rs))
    IN  <<[id |-> comment.id, depth |-> comment.depth, parent |-> comment.parent]>>
            \o Replies(comment.replies)

\* flattened_comments after the loop over threaded_comments.
RECURSIVE FlattenThreads(_)
FlattenThreads(threads) ==
    IF threads = <<>> THEN <<>>
    ELSE flatten_thread(Head(threads)) \o FlattenThreads(Tail(threads))

\* story['kids'][:self.MAX_COMMENTS_PER_STORY]
TopLevelAll(kids, max_comments) == kids
TopLevelLast(kids, max_comments) ==
    SubSeq(kids, Len(kids) - Len(Take(kids, max_comments)) + 1, Len(kids))
TopLevel(kids, max_comments) == Take(kids, max_comments)

\* fetch_comments of a summarizer whose MAX_COMMENTS_PER_STORY is max_comments.
FetchCommentsCapped(remote, max_comments) ==
    LET story == fetch_item(AnswerOf(remote, StoryItem)).value
    IN  IF story = None \/ story.kids = <<>> THEN <<>>
        ELSE LET top_level_comments == TopLevel(story.kids, max_comments)
                 threaded_comments ==
                     Truthy([k \in DOMAIN top_level_comments |->
                                fetch_comment_tree(remote, top_level_comments[k], 0)])
             IN  FlattenThreads(threaded_comments)

fetch_comments(remote) == FetchCommentsCapped(remote, MAX_COMMENTS_PER_STORY)

\* ------------------------------------------------------------------ one story's comments
CommentsInit ==
    /\ CycleInit
    /\ hn \in Remotes
    /\ item = NoCall
    /\ comments = NoCall
    /\ llm_calls = <<>>
    /\ final_summary = <<>>
    /\ written = NoCall
    /\ summary = NoCall
    /\ pool = NoCall
    /\ requests = {}
    /\ article = NoCall

\* A call of fetch_item for item i, whatever the remote does with the request.
FetchItem(i) ==
    /\ i \in DOMAIN hn.items
    /\ item = NoCall
    /\ comments = NoCall
    /\ \E answer \in Answers(hn.items[i]) :
           item' = [called |-> TRUE, item_id |-> i, answer |-> answer,
                    result |-> fetch_item(answer)]
    /\ UNCHANGED <<hn, comments, llm_calls, final_summary, written, summary, pool, article, requests>>
    /\ UNCHANGED cycleVars

\* A call of fetch_comments for the story.
FetchComments ==
    /\ comments = NoCall
    /\ comments' = [called |-> TRUE, result |-> fetch_comments(hn)]
    /\ item' = NoCall
    /\ UNCHANGED <<hn, llm_calls, final_summary, written, summary, pool, article, requests>>
    /\ UNCHANGED cycleVars

CommentsNext ==
    \/ \E i \in ItemIds : FetchItem(i)
    \/ FetchComments

SpecComments == CommentsInit /\ [][CommentsNext]_vars

\* ------------------------------------------------------------------ the worker pool
\* fetch_comments task by task: each top-level comment's tree is fetched by a task
\* of the ThreadPoolExecutor, the tasks starting and finishing in any order.

\* The item ids fetch_comment_tree requests: the comment's, and unless the comment
\* is discarded those its calls for the replies request.
RECURSIVE TreeRequests(_, _)
TreeRequests(remote, comment_id) ==
    LET comment == fetch_item(AnswerOf(remote, comment_id)).value
    IN  {comment_id} \cup
        (IF comment = None \/ Discarded(comment) THEN {}
         ELSE UNION {TreeRequests(remote, comment.kids[k]) : k \in DOMAIN comment.kids})

\* executor.submit(fetch_comment_tree, cid, 0)
Future(cid) == [comment_id |-> cid, state |-> "queued", result |-> None]

\* [f.result() for f in comment_futures]: the results in the order of submission.
ResultsAsCompleted(p) == [k \in DOMAIN p.finished |-> p.futures[p.finished[k]].result]
FutureResults(p) == [k \in DOMAIN p.futures |-> p.futures[k].result]

PoolInit ==
    /\ CycleInit
    /\ hn \in Remotes
    /\ item = NoCall
    /\ comments = NoCall
    /\ llm_calls = <<>>
    /\ final_summary = <<>>
    /\ written = NoCall
    /\ summary = NoCall
    /\ pool = NoCall
    /\ requests = {}
    /\ article = NoCall

\* The story is fetched; without kids the call returns [], otherwise a task is
\* submitted for each of the first MAX_COMMENTS_PER_STORY kids.
PoolSubmit ==
    /\ comments = NoCall
    /\ pool = NoCall
    /\ requests' = {StoryItem}
    /\ LET story == fetch_item(AnswerOf(hn, StoryItem)).value
       IN  IF story = None \/ story.kids = <<>>
           THEN /\ comments' = [called |-> TRUE, result |-> <<>>]
                /\ UNCHANGED pool
           ELSE LET top_level_comments == TopLevel(story.kids, MAX_COMMENTS_PER_STORY)
                IN  /\ pool' = [called |-> TRUE,
                                futures |-> [k \in DOMAIN top_level_comments |->
                                                Future(top_level_comments[k])],
                                started |-> <<>>,
                                finished |-> <<>>]
                    /\ UNCHANGED comments
    /\ UNCHANGED <<hn, item, llm_calls, final_summary, written, summary, article>>
    /\ UNCHANGED cycleVars

\* A worker that is free takes a queued task.
TaskStart(k) ==
    /\ comments = NoCall
    /\ pool # NoCall
    /\ k \in DOMAIN pool.futures
    /\ pool.futures[k].state = "queued"
    /\ Cardinality({j \in DOMAIN pool.futures : pool.futures[j].state = "running"})
           < MAX_WORKERS
    /\ pool' = [pool EXCEPT !.futures[k].state = "running", !.started = Append(@, k)]
    /\ UNCHANGED <<hn, item, comments, llm_calls, final_summary, written, summary, requests,
                   article>>
    /\ UNCHANGED cycleVars

\* A running task returns: its future holds what fetch_comment_tree(cid, 0) gave.
TaskFinish(k) ==
    /\ comments = NoCall
    /\ pool # NoCall
    /\ k \in DOMAIN pool.futures
    /\ pool.futures[k].state = "running"
    /\ pool' = [pool EXCEPT
                  !.futures[k].state = "done",
                  !.futures[k].result =
                      fetch_comment_tree(hn, pool.futures[k].comment_id, 0),
                  !.finished = Append(@, k)]
    /\ requests' = requests \cup TreeRequests(hn, pool.futures[k].comment_id)
    /\ UNCHANGED <<hn, item, comments, llm_calls, final_summary, written, summary, article>>
    /\ UNCHANGED cycleVars

\* Every f.result() has returned: the threads are flattened and the call returns.
PoolCollect ==
    /\ comments = NoCall
    /\ pool # NoCall
    /\ \A k \in DOMAIN pool.futures : pool.futures[k].state = "done"
    /\ comments' = [called |-> TRUE,
                    result |-> FlattenThreads(Truthy(FutureResults(pool)))]
    /\ UNCHANGED <<hn, item, llm_calls, final_summary, written, summary, pool, article, requests>>
    /\ UNCHANGED cycleVars

PoolNext ==
    \/ PoolSubmit
    \/ \E k \in CommentIds : TaskStart(k)
    \/ \E k \in CommentIds : TaskFinish(k)
    \/ PoolCollect

SpecPool == PoolInit /\ [][PoolNext]_vars

\* ------------------------------------------------------------------ text
\* A text is a sequence of characters; a digit string is a text of digits.
DigitChars == <<"0", "1", "2", "3", "4", "5", "6", "7", "8", "9">>
IsDigit(c) == c \in Range(DigitChars)
\* What \s matches.
Whitespace == {" ", "\t"}

\* str(n), and f"{n}" for an integer n >= 0.
RECURSIVE Str(_)
Str(n) ==
    IF n < Len(DigitChars) THEN <<DigitChars[n + 1]>>
    ELSE Str(n \div Len(DigitChars)) \o <<DigitChars[(n % Len(DigitChars)) + 1]>>

\* The first index from i on that holds no digit (Len(s) + 1 if there is none).
RECURSIVE DigitsEnd(_, _)
DigitsEnd(s, i) ==
    IF i <= Len(s) /\ IsDigit(s[i]) THEN DigitsEnd(s, i + 1) ELSE i

\* The first index from i on that holds no whitespace.
RECURSIVE WhitespaceEnd(_, _)
WhitespaceEnd(s, i) ==
    IF i <= Len(s) /\ s[i] \in Whitespace THEN WhitespaceEnd(s, i + 1) ELSE i

\* s.replace(' ', '')
KeepSpaces(s) == s
RemoveSpaces(s) == SelectSeq(s, LAMBDA c : c # " ")

\* s.split(',')
RECURSIVE Split(_)
Split(s) ==
    IF \A i \in DOMAIN s : s[i] # "," THEN <<s>>
    ELSE LET k == CHOOSE i \in DOMAIN s : s[i] = "," /\ \A j \in 1..(i - 1) : s[j] # ","
         IN  <<SubSeq(s, 1, k - 1)>> \o Split(SubSeq(s, k + 1, Len(s)))

\* sep.join(parts)
RECURSIVE Join(_, _)
Join(sep, parts) ==
    IF parts = <<>> THEN <<>>
    ELSE IF Len(parts) = 1 THEN parts[1]
    ELSE parts[1] \o sep \o Join(sep, Tail(parts))

\* re.findall(r'\d+', s)
RECURSIVE FindAllDigits(_, _)
FindAllDigits(s, i) ==
    IF i > Len(s) THEN <<>>
    ELSE IF IsDigit(s[i])
         THEN <<SubSeq(s, i, DigitsEnd(s, i) - 1)>> \o FindAllDigits(s, DigitsEnd(s, i))
         ELSE FindAllDigits(s, i + 1)

\* ------------------------------------------------------------------ process_gpt_response
\* comment_map = {str(i + 1): comment['id'] for i, comment in enumerate(comments)}
CommentMapZeroBased(cs) ==
    [k \in {Str(i - 1) : i \in DOMAIN cs} |->
        cs[CHOOSE i \in DOMAIN cs : Str(i - 1) = k].id]
CommentMap(cs) ==
    [k \in {Str(i) : i \in DOMAIN cs} |->
        cs[CHOOSE i \in DOMAIN cs : Str(i) = k].id]

\* The anchor replace_citation writes for one number.
LinkOpen == "<a href=\"https://news.ycombinator.com/item?id="
LinkClass == "\" class=\"text-blue-600 hover:text-blue-800\" target=\"_blank\">"
LinkClose == "</a>"
LinkToIndex(comment_id, num) ==
    <<LinkOpen>> \o num \o <<LinkClass, "[">> \o num \o <<"]", LinkClose>>
Link(comment_id, num) ==
    <<LinkOpen>> \o Str(comment_id) \o <<LinkClass, "[">> \o num \o <<"]", LinkClose>>

\* replace_citation: the links of the numbers of the match that are keys of the map.
RECURSIVE CitationLinks(_, _)
CitationLinks(nums, comment_map) ==
    IF nums = <<>> THEN <<>>
    ELSE (IF Head(nums) \in DOMAIN comment_map
          THEN Link(comment_map[Head(nums)], Head(nums))
          ELSE <<>>) \o CitationLinks(Tail(nums), comment_map)
ReplaceCitationKeeping(match, comment_map) ==
    IF CitationLinks(FindAllDigits(match, 1), comment_map) = <<>> THEN match
    ELSE CitationLinks(FindAllDigits(match, 1), comment_map)
replace_citation(match, comment_map) == CitationLinks(FindAllDigits(match, 1), comment_map)

\* Where a match of \((\d+(?:,\s*\d+)*)\) that starts at i ends, 0 if there is none.
\* j is the index after the digits read so far.  A digit, a comma, whitespace and a
\* parenthesis are different characters, so the greedy match is the only one.
RECURSIVE ParenTail(_, _)
ParenTail(s, j) ==
    IF j > Len(s) THEN 0
    ELSE IF s[j] = ")" THEN j
    ELSE IF s[j] = ","
         THEN LET k == WhitespaceEnd(s, j + 1)
              IN  IF DigitsEnd(s, k) > k THEN ParenTail(s, DigitsEnd(s, k)) ELSE 0
         ELSE 0
ParenMatch(s, i) ==
    IF s[i] = "(" /\ DigitsEnd(s, i + 1) > i + 1 THEN ParenTail(s, DigitsEnd(s, i + 1)) ELSE 0

\* lambda m: '[' + ']['.join(m.group(1).replace(' ', '').split(',')) + ']'
ParenReplacement(group1) ==
    <<"[">> \o Join(<<"]", "[">>, Split(RemoveSpaces(group1))) \o <<"]">>

\* re.sub of the parenthetical pattern, from index i on.
RECURSIVE SubParens(_, _)
SubParens(s, i) ==
    IF i > Len(s) THEN <<>>
    ELSE LET e == ParenMatch(s, i)
         IN  IF e > 0
             THEN ParenReplacement(SubSeq(s, i + 1, e - 1)) \o SubParens(s, e + 1)
             ELSE <<s[i]>> \o SubParens(s, i + 1)

\* Where a match of \[(\d+)\] that starts at i ends, 0 if there is none.
BracketMatchNoDigits(s, i) ==
    LET j == DigitsEnd(s, i + 1)
    IN  IF s[i] = "[" /\ j <= Len(s) /\ s[j] = "]" THEN j ELSE 0
BracketMatch(s, i) ==
    LET j == DigitsEnd(s, i + 1)
    IN  IF s[i] = "[" /\ j > i + 1 /\ j <= Len(s) /\ s[j] = "]" THEN j ELSE 0

\* re.sub of the bracket pattern with replace_citation, from index i on.
RECURSIVE SubBrackets(_, _, _)
SubBrackets(s, i, comment_map) ==
    IF i > Len(s) THEN <<>>
    ELSE LET e == BracketMatch(s, i)
         IN  IF e > 0
             THEN replace_citation(SubSeq(s, i, e), comment_map)
                      \o SubBrackets(s, e + 1, comment_map)
             ELSE <<s[i]>> \o SubBrackets(s, i + 1, comment_map)

process_gpt_response(text, cs) ==
    SubBrackets(SubParens(text, 1), 1, CommentMap(cs))

\* ------------------------------------------------------------------ summarize_comments
\* comment_texts: the line f"[{i}] {indent}{text}" of each comment, the text standing
\* for itself under the comment's id.
CommentTexts(cs) ==
    [i \in DOMAIN cs |-> [number |-> Str(i), depth |-> cs[i].depth, id |-> cs[i].id]]

\* The record returned after both calls, and the one the except clause returns.
SummaryRecordNeedingComments(story_id, cs, text) ==
    [story_id |-> story_id, commentCount |-> Len(cs), failed |-> cs = <<>>,
     summary |-> IF cs = <<>> THEN <<"Error generating summary: ", "no comments">> ELSE text]
SummaryRecord(story_id, cs, text) ==
    [story_id |-> story_id, commentCount |-> Len(cs), failed |-> FALSE, summary |-> text]
ErrorRecordWithLink(story_id, cs, e) ==
    [story_id |-> story_id, commentCount |-> Len(cs), failed |-> TRUE,
     summary |-> <<"Error generating summary: ", e>> \o Link(story_id, Str(1))]
ErrorRecord(story_id, cs, e) ==
    [story_id |-> story_id, commentCount |-> Len(cs), failed |-> TRUE,
     summary |-> <<"Error generating summary: ", e>>]

\* ------------------------------------------------------------------ what the LLM writes
\* The numbers a text cites: those of the comments, the ones around them, and one
\* written with a leading zero.
Numerals == {Str(k) : k \in 0..(MaxComments + 1)} \cup {<<"0">> \o Str(1)}
IndexLists == UNION {[1..n -> Numerals] : n \in 1..MaxCitations}

\* [i][j][k]
RECURSIVE Brackets(_)
Brackets(l) ==
    IF l = <<>> THEN <<>> ELSE <<"[">> \o Head(l) \o <<"]">> \o Brackets(Tail(l))
\* (i, j, k), the numbers joined by a comma and sep.
Group(l, sep) == <<"(">> \o Join(<<",">> \o sep, l) \o <<")">>

\* What follows the comma in a group: nothing, spaces, a tab.
Separators == {<<>>, <<" ">>, <<" ", " ">>, <<"\t">>}
\* What stands before and after the citations.
Contexts == {<<>>, <<"a">>, <<"[">>}

\* A text with how the LLM put it together: citations in bracket or in group form
\* between two contexts, or any short text over the characters markers are made of.
Writing(pre, form, numbers, sep, post) ==
    [text |-> pre \o (CASE form = "brackets" -> Brackets(numbers)
                        [] form = "group" -> Group(numbers, sep)
                        [] form = "malformed" -> Group(numbers, sep)
                        [] OTHER -> <<>>) \o post,
     pre |-> pre, form |-> form, numbers |-> numbers, sep |-> sep, post |-> post]
PlainChars == {"[", "]", "(", ")", ",", " ", "1", "a"}
PlainTexts == UNION {[1..n -> PlainChars] : n \in 0..MaxPlain}
Writings ==
    {Writing(pre, "brackets", l, <<>>, post) :
        pre \in Contexts, l \in IndexLists, post \in Contexts}
    \cup {Writing(pre, "group", l, sep, post) :
        pre \in Contexts, l \in IndexLists, sep \in Separators, post \in {<<>>, <<"a">>}}
    \cup {Writing(t, "plain", <<>>, <<>>, <<>>) : t \in PlainTexts}

\* The sequences fetch_comments returns.
FlatLists == {fetch_comments(remote) : remote \in Remotes}

\* ------------------------------------------------------------------ one story's summary
TheStory == 1

CitationsInit ==
    /\ CycleInit
    /\ hn = <<>>
    /\ item = NoCall
    /\ comments \in {[called |-> TRUE, result |-> cs] : cs \in FlatLists}
    /\ llm_calls = <<>>
    /\ final_summary = <<>>
    /\ written = NoCall
    /\ summary = NoCall
    /\ pool = NoCall
    /\ requests = {}
    /\ article = NoCall

\* A call of chat.completions.create: which of the two it is, the summary and the
\* comment rendering its prompt holds, and the text it returned unless it raised.
LlmCall(call, prompt_summary, comment_texts, response) ==
    [call |-> call, summary |-> prompt_summary, comment_texts |-> comment_texts,
     response |-> response]

\* What the draft call may write.
Drafts == {<<"a">>, <<"b">>}

\* {initial_summary} in citation_prompt.
DraftLeftOut(initial_summary) == <<>>
DraftInPrompt(initial_summary) == initial_summary

\* The draft call: chat.completions.create with summary_prompt.  If it raises, the
\* except clause returns the error record.
DraftCallFor(story_id) ==
    /\ comments # NoCall
    /\ llm_calls = <<>>
    /\ summary = NoCall
    /\ \/ /\ llm_calls' = <<LlmCall("draft", <<>>, CommentTexts(comments.result), Raise)>>
          /\ summary' = Return(ErrorRecord(story_id, comments.result, "draft call failed"))
       \/ \E initial_summary \in Drafts :
            /\ llm_calls' = <<LlmCall("draft", <<>>, CommentTexts(comments.result),
                                      Return(initial_summary))>>
            /\ summary' = NoCall
    /\ UNCHANGED <<hn, item, comments, final_summary, written, pool, article, requests>>
    /\ UNCHANGED cycleVars

DraftCall == DraftCallFor(TheStory)

\* The citation call: chat.completions.create with citation_prompt, then
\* process_gpt_response on what it wrote, and the record is returned.  ws is what the
\* LLM may write.
CitationCallFor(story_id, ws) ==
    /\ Len(llm_calls) = 1
    /\ summary = NoCall
    /\ \/ /\ llm_calls' = Append(llm_calls,
                             LlmCall("citation", DraftInPrompt(llm_calls[1].response.value),
                                     CommentTexts(comments.result), Raise))
          /\ summary' = Return(ErrorRecord(story_id, comments.result, "citation call failed"))
          /\ UNCHANGED <<final_summary, written>>
       \/ \E w \in ws :
            /\ llm_calls' = Append(llm_calls,
                               LlmCall("citation", DraftInPrompt(llm_calls[1].response.value),
                                       CommentTexts(comments.result), Return(w.text)))
            /\ final_summary' = w.text
            /\ written' = w
            /\ summary' = Return(SummaryRecord(story_id, comments.result,
                                     process_gpt_response(w.text, comments.result)))
    /\ UNCHANGED <<hn, item, comments, pool, article, requests>>
    /\ UNCHANGED cycleVars

CitationCall == CitationCallFor(TheStory, Writings)

CitationsNext ==
    \/ DraftCall
    \/ CitationCall

SpecCitations == CitationsInit /\ [][CitationsNext]_vars

\* ------------------------------------------------------------------ the loop body
\* One cycle (the startup one) from its loop on, each story's summary followed call
\* by call: the staging table is there and the list of stories is fetched.
LoopInit ==
    /\ now = 0
    /\ db = [summaries |-> Table({}), summaries_temp |-> Table({}),
             summaries_old |-> Absent, last_updated |-> 0 - TicksPerDay]
    /\ is_updating = FALSE
    /\ phase = "startup"
    /\ pc = [r \in Runners |-> IF r = "startup" THEN "loop" ELSE "idle"]
    /\ stories \in {[r \in Runners |-> IF r = "startup" THEN top ELSE <<>>] :
                       top \in TopStories}
    /\ position = [r \in Runners |-> 0]
    /\ processed_stories = [r \in Runners |-> 0]
    /\ staged = [r \in Runners |-> {}]
    /\ handler = [h \in Threads |-> "idle"]
    /\ cron_last = 0
    /\ cycles = 1
    /\ http_response = NoResponse
    /\ StoryIdle

\* Runner r is in the loop body for the story at its position.
InLoopBody(r) == pc[r] = "loop" /\ position[r] < Len(stories[r])

\* story = fetch_item(story_id) is None: the body is skipped.
SkipStory(r) ==
    /\ InLoopBody(r)
    /\ comments = NoCall
    /\ position' = [position EXCEPT ![r] = @ + 1]
    /\ UNCHANGED <<now, db, is_updating, phase, pc, stories, processed_stories, staged,
                   handler, cron_last, cycles, http_response>>
    /\ UNCHANGED storyVars

\* The remotes of this cycle's stories: every request is answered and no comment is
\* deleted or dead.
LoopRemotes ==
    {remote \in Remotes :
        /\ remote.down = {}
        /\ \A c \in CommentsOf(remote) : ~Discarded(remote.items[c])}

\* story = fetch_item(story_id), then comments = fetch_comments(story_id).
LoopFetchComments(r) ==
    /\ InLoopBody(r)
    /\ comments = NoCall
    /\ \E remote \in LoopRemotes :
         /\ hn' = remote
         /\ comments' = [called |-> TRUE, result |-> fetch_comments(remote)]
    /\ llm_calls' = <<>>
    /\ final_summary' = <<>>
    /\ written' = NoCall
    /\ summary' = NoCall
    /\ UNCHANGED <<item, pool, article, requests>>
    /\ UNCHANGED cycleVars

\* What the LLM writes in this cycle: a point with a citation, one without, or a
\* citation and nothing else.
LoopWritings ==
    {Writing(<<"a">>, "brackets", <<Str(1)>>, <<>>, <<>>),
     Writing(<<"a">>, "plain", <<>>, <<>>, <<>>),
     Writing(<<>>, "brackets", <<Str(1)>>, <<>>, <<>>)}

\* summary = summarize_comments(story, comments), its two calls.
LoopDraftCall(r) ==
    /\ InLoopBody(r)
    /\ DraftCallFor(stories[r][position[r] + 1])
LoopCitationCall(r) ==
    /\ InLoopBody(r)
    /\ CitationCallFor(stories[r][position[r] + 1], LoopWritings)

\* The row the INSERT writes for the record summarize_comments returned.
SummaryRow(r, record) ==
    [story_id |-> record.story_id, position |-> position[r],
     created_at |-> now, comment_count |-> record.commentCount,
     summary |-> record.summary]

\* INSERT OR REPLACE INTO summaries_temp with the record, processed_stories += 1;
\* if the INSERT raises, the except clause goes on to the next story.
StageSummary(r) ==
    /\ InLoopBody(r)
    /\ summary # NoCall
    /\ LET res == InsertOrReplace(db, "summaries_temp", SummaryRow(r, summary.value))
       IN  IF res.ok
           THEN /\ db' = res.db
                /\ processed_stories' = [processed_stories EXCEPT ![r] = @ + 1]
                /\ staged' = [staged EXCEPT ![r] = @ \cup {SummaryRow(r, summary.value)}]
                /\ position' = [position EXCEPT ![r] = @ + 1]
           ELSE /\ position' = [position EXCEPT ![r] = Continue(@, Len(stories[r]))]
                /\ UNCHANGED <<db, processed_stories, staged>>
    /\ comments' = NoCall
    /\ UNCHANGED <<now, is_updating, phase, pc, stories, handler, cron_last, cycles,
                   http_response>>
    /\ UNCHANGED <<hn, item, llm_calls, final_summary, written, summary, pool, article, requests>>

LoopNext ==
    \/ SkipStory("startup")
    \/ LoopFetchComments("startup")
    \/ LoopDraftCall("startup")
    \/ LoopCitationCall("startup")
    \/ StageSummary("startup")
    \/ SwapTables("startup")
    \/ DropTempNoStories("startup")
    \/ Cleanup("startup")

SpecLoop == LoopInit /\ [][LoopNext]_vars

\* ------------------------------------------------------------------ a silent remote
\* requests.get is called without a timeout argument: when the remote accepts the
\* request for the story's item and never answers, the call does not return and the
\* runner stays in fetch_item.
RequestUnanswered(r) ==
    /\ InLoopBody(r)
    /\ comments = NoCall
    /\ pc' = [pc EXCEPT ![r] = "waiting"]
    /\ UNCHANGED <<now, db, is_updating, phase, stories, position, processed_stories,
                   staged, handler, cron_last, cycles, http_response>>
    /\ UNCHANGED storyVars

NoTimeoutNext ==
    \/ LoopNext
    \/ RequestUnanswered("startup")

\* The cycle of SpecLoop with a remote that may stay silent.  The runner is a thread
\* of its own and every call that returns lets it go on: weak fairness of its steps.
SpecNoTimeout == LoopInit /\ [][NoTimeoutNext]_vars /\ WF_vars(NoTimeoutNext)

\* ------------------------------------------------------------------ a changing remote
\* The loop body request by request, against a remote on which the story goes on
\* gathering points and comments while the cycle works on it.

\* The points a story can have.
MaxScore == 2
Scores == 1..MaxScore

\* s with x put in at index k.
InsertAt(s, k, x) == SubSeq(s, 1, k - 1) \o <<x>> \o SubSeq(s, k, Len(s))

\* The remote when a cycle first asks for the story.
LiveRemotes ==
    {[items |-> remote.items, down |-> {}, score |-> s] :
        remote \in LoopRemotes, s \in Scores}

\* The remote after a vote for the story.
Upvoted(remote) == [remote EXCEPT !.score = @ + 1]

\* The remote after a new comment c, a reply to q that the remote lists at index k
\* of q's kids.
Commented(remote, c, q, k) ==
    [remote EXCEPT !.items =
        [i \in DOMAIN remote.items \cup {c} |->
            IF i = c THEN [id |-> c, parent |-> q, kids |-> <<>>,
                           deleted |-> FALSE, dead |-> FALSE]
            ELSE IF i = q THEN [remote.items[q] EXCEPT !.kids = InsertAt(@, k, c)]
            ELSE remote.items[i]]]

\* What the item endpoint answers for the story (item/{story_id}.json).
StoryData(remote, story_id) ==
    [id |-> story_id,
     title |-> "title",
     score |-> remote.score,
     descendants |-> Cardinality(CommentsOf(remote)),
     kids |-> remote.items[StoryItem].kids]

\* The dict summarize_comments returns after both calls, and the one its except
\* clause returns.
StoryRecord(story, cs, text) ==
    [story_id |-> story.id, title |-> story.title, points |-> story.score,
     commentCount |-> story.descendants, failed |-> FALSE, summary |-> text]
StoryErrorRecord(story, cs, e) ==
    [story_id |-> story.id, title |-> story.title, points |-> story.score,
     commentCount |-> Len(cs), failed |-> TRUE,
     summary |-> <<"Error generating summary: ", e>>]

\* story = summarizer.fetch_item(story_id) in the loop of update_summaries; a story
\* that comes back None is passed over.
SnapshotStory(r) ==
    /\ InLoopBody(r)
    /\ item = NoCall
    /\ comments = NoCall
    /\ \/ \E remote \in LiveRemotes :
            /\ hn' = remote
            /\ item' = [called |-> TRUE, item_id |-> StoryItem,
                        result |-> Return(StoryData(remote, stories[r][position[r] + 1]))]
            /\ requests' = {[by |-> "update_summaries", item_id |-> StoryItem]}
            /\ UNCHANGED position
       \/ /\ position' = [position EXCEPT ![r] = @ + 1]
          /\ UNCHANGED <<hn, item, requests>>
    /\ UNCHANGED <<comments, llm_calls, final_summary, written, summary, pool, article>>
    /\ UNCHANGED <<now, db, is_updating, phase, pc, stories, processed_stories, staged,
                   handler, cron_last, cycles, http_response>>

\* Between two requests of the cycle the story is voted for or commented on.
RemoteChanges(r) ==
    /\ InLoopBody(r)
    /\ item # NoCall
    /\ comments = NoCall
    /\ \/ /\ hn.score < MaxScore
          /\ hn' = Upvoted(hn)
       \/ /\ Cardinality(CommentsOf(hn)) < MaxComments
          /\ \E q \in DOMAIN hn.items :
               \E k \in 1..(Len(hn.items[q].kids) + 1) :
                  hn' = Commented(hn, Cardinality(CommentsOf(hn)) + 1, q, k)
    /\ UNCHANGED <<item, comments, llm_calls, final_summary, written, summary, pool, article,
                   requests>>
    /\ UNCHANGED cycleVars

\* comments = summarizer.fetch_comments(story_id): it asks for the story again
\* (story = self.fetch_item(story_id)) and fetches the trees of that story's kids.
FetchCommentsOfStory(r) ==
    /\ InLoopBody(r)
    /\ item # NoCall
    /\ comments = NoCall
    /\ comments' = [called |-> TRUE,
                    story |-> StoryData(hn, stories[r][position[r] + 1]),
                    result |-> fetch_comments(hn)]
    /\ requests' = requests \cup {[by |-> "fetch_comments", item_id |-> StoryItem]}
    /\ UNCHANGED <<hn, item, llm_calls, final_summary, written, summary, pool, article>>
    /\ UNCHANGED cycleVars

\* summary = summarizer.summarize_comments(story, comments), with the story of the
\* loop and the comments of fetch_comments: both LLM calls, or the except clause.
SummarizeStory(r) ==
    /\ InLoopBody(r)
    /\ comments # NoCall
    /\ summary = NoCall
    /\ LET story == item.result.value
           cs == comments.result
           draft == LlmCall("draft", <<>>, CommentTexts(cs), Return(<<"a">>))
       IN  \/ /\ llm_calls' = <<LlmCall("draft", <<>>, CommentTexts(cs), Raise)>>
              /\ summary' = Return(StoryErrorRecord(story, cs, "draft call failed"))
              /\ UNCHANGED <<final_summary, written>>
           \/ \E w \in LoopWritings :
                /\ llm_calls' = <<draft, LlmCall("citation", DraftInPrompt(<<"a">>),
                                                 CommentTexts(cs), Return(w.text))>>
                /\ final_summary' = w.text
                /\ written' = w
                /\ summary' = Return(StoryRecord(story, cs, process_gpt_response(w.text, cs)))
    /\ UNCHANGED <<hn, item, comments, pool, article, requests>>
    /\ UNCHANGED cycleVars

\* The row the INSERT writes: the record's fields and the loop's position.
StoryRow(r, record) ==
    [story_id |-> record.story_id, title |-> record.title, points |-> record.points,
     comment_count |-> record.commentCount, summary |-> record.summary,
     position |-> position[r], created_at |-> now]

\* INSERT OR REPLACE INTO summaries_temp, processed_stories += 1, and on to the
\* next story.
StageStory(r) ==
    /\ InLoopBody(r)
    /\ summary # NoCall
    /\ LET res == InsertOrReplace(db, "summaries_temp", StoryRow(r, summary.value))
       IN  IF res.ok
           THEN /\ db' = res.db
                /\ processed_stories' = [processed_stories EXCEPT ![r] = @ + 1]
                /\ staged' = [staged EXCEPT ![r] = @ \cup {StoryRow(r, summary.value)}]
                /\ position' = [position EXCEPT ![r] = @ + 1]
           ELSE /\ position' = [position EXCEPT ![r] = Continue(@, Len(stories[r]))]
                /\ UNCHANGED <<db, processed_stories, staged>>
    /\ item' = NoCall
    /\ comments' = NoCall
    /\ summary' = NoCall
    /\ llm_calls' = <<>>
    /\ final_summary' = <<>>
    /\ written' = NoCall
    /\ requests' = {}
    /\ UNCHANGED <<now, is_updating, phase, pc, stories, handler, cron_last, cycles,
                   http_response>>
    /\ UNCHANGED <<hn, pool, article>>

SnapshotNext ==
    \/ SnapshotStory("startup")
    \/ RemoteChanges("startup")
    \/ FetchCommentsOfStory("startup")
    \/ SummarizeStory("startup")
    \/ StageStory("startup")
    \/ SwapTables("startup")
    \/ DropTempNoStories("startup")
    \/ Cleanup("startup")

SpecSnapshot == LoopInit /\ [][SnapshotNext]_vars

\* ------------------------------------------------------------------ the article
\* summarize_comments from its first lines on: the article behind the story's URL is
\* fetched for the draft prompt, then the two LLM calls follow.

\* story.get('url', ''): a story may have no URL.
StoryUrls == {"", "url"}

\* What the handler of a URL (handle_github_url, handle_pdf_url, handle_webpage_url)
\* does: it returns the content dict, returns None, or raises.
ArticleContent == [url |-> "url", content |-> "text", domain |-> "domain"]
HandlerResults == {Return(ArticleContent), Return(None), Raise}

\* extract_article_content: None without a URL, and None when the handler raises.
extract_article_content(url, handled) ==
    IF url = "" THEN None ELSE ExceptReturnNone(handled).value

\* get_summary_context: the text put before the comments in the draft prompt.
get_summary_context(content) ==
    IF content = None THEN <<"No article content available for analysis.">>
    ELSE <<"Source: ", content.domain, "URL: ", content.url,
           "Content Summary:", content.content>>

\* article_context: empty unless the extractor returned content.
ArticleContextFormatted(article_content) == get_summary_context(article_content)
ArticleContext(article_content) ==
    IF article_content = None THEN <<>> ELSE get_summary_context(article_content)

\* `if story_url:` one call of the extractor, and article_context out of what it gave.
ExtractArticle ==
    /\ comments # NoCall
    /\ article = NoCall
    /\ llm_calls = <<>>
    /\ summary = NoCall
    /\ \E story_url \in StoryUrls :
         IF story_url = ""
         THEN article' = [called |-> TRUE, url |-> story_url, calls |-> 0,
                          content |-> None, context |-> <<>>]
         ELSE \E handled \in HandlerResults :
                LET article_content == extract_article_content(story_url, handled)
                IN  article' = [called |-> TRUE, url |-> story_url, calls |-> 1,
                                content |-> article_content,
                                context |-> ArticleContext(article_content)]
    /\ UNCHANGED <<hn, item, comments, llm_calls, final_summary, written, summary, pool,
                   requests>>
    /\ UNCHANGED cycleVars

\* The draft call, its prompt holding article_context, and the citation call.
ArticleDraftCall ==
    /\ article # NoCall
    /\ DraftCallFor(TheStory)
ArticleCitationCall ==
    /\ article # NoCall
    /\ CitationCallFor(TheStory, LoopWritings)

ArticleNext ==
    \/ ExtractArticle
    \/ ArticleDraftCall
    \/ ArticleCitationCall

SpecArticle == CitationsInit /\ [][ArticleNext]_vars

\* ------------------------------------------------------------------ malformed groups
\* summarize_comments when the citation call writes a group in which some entry is
\* not a number, such as (1, x, 3).
GroupEntries == {Str(1), Str(MaxComments), <<"x">>}
IsNumber(entry) == \A k \in DOMAIN entry : IsDigit(entry[k])
MalformedLists ==
    {l \in UNION {[1..n -> GroupEntries] : n \in 2..(MaxCitations + 1)} :
        /\ \E k \in DOMAIN l : IsNumber(l[k])
        /\ \E k \in DOMAIN l : ~IsNumber(l[k])}
MalformedWritings ==
    {Writing(pre, "malformed", l, sep, <<>>) :
        pre \in {<<>>, <<"b">>}, l \in MalformedLists, sep \in {<<>>, <<" ">>}}

MalformedCitationCall == CitationCallFor(TheStory, MalformedWritings)

MalformedNext ==
    \/ DraftCall
    \/ MalformedCitationCall

SpecMalformed == CitationsInit /\ [][MalformedNext]_vars

\* ------------------------------------------------------------------ init_db
\* The database file with the columns of its tables, over the runs of the program:
\* create_app calls init_db, then update_summaries, and the program is started again.

\* The columns of summaries in SCHEMA_V1_SQL, and those of summaries_new in
\* MIGRATION_V2_SQL (the ones of summaries_temp as well).
ColumnsV1 ==
    {"story_id", "title", "url", "points", "comment_count", "summary", "created_at"}
ColumnsV2 == ColumnsV1 \cup {"position"}

\* No file at the database path.
NoFile == [file |-> FALSE]
\* A table with its columns; a row maps each column to its value.
SchemaTable(columns, rows) == [exists |-> TRUE, columns |-> columns, rows |-> rows]

\* A row of an older version of the program: url and points may be NULL.
OldRows ==
    {[c \in ColumnsV1 |->
        CASE c = "story_id" -> id
          [] c = "title" -> "title"
          [] c = "url" -> url
          [] c = "points" -> points
          [] c = "comment_count" -> 0
          [] c = "summary" -> "summary"
          [] c = "created_at" -> created_at] :
        id \in StoryIds, url \in {"url", "NULL"}, points \in {"NULL", "1"},
        created_at \in {0 - TicksPerDay, 0}}
\* The tables an older version left: story_id is the primary key.
OldTables ==
    {rows \in SUBSET OldRows : \A r, s \in rows : r["story_id"] = s["story_id"] => r = s}

\* CREATE TABLE IF NOT EXISTS summaries (...), CREATE TABLE IF NOT EXISTS last_update.
SchemaV1(d) ==
    [file |-> TRUE,
     summaries |-> IF d.file /\ d.summaries.exists THEN d.summaries
                   ELSE SchemaTable(ColumnsV1, {}),
     summaries_new |-> IF d.file THEN d.summaries_new ELSE Absent,
     last_updated |-> IF d.file THEN d.last_updated ELSE "none"]

\* A column the INSERT does not name gets its default: 0 for position.
ColumnDefault(c) == IF c = "position" THEN 0 ELSE "NULL"

\* The statements of MIGRATION_V2_SQL that touch tables, in order (the indexes hold
\* no data).
MigrationStatements == <<"create summaries_new", "copy", "drop summaries", "rename">>

MigrationStatement(d, k) ==
    CASE MigrationStatements[k] = "create summaries_new" ->
            IF d.summaries_new.exists THEN Failed(d)
            ELSE Ok([d EXCEPT !.summaries_new = SchemaTable(ColumnsV2, {})])
      [] MigrationStatements[k] = "copy" ->
            IF d.summaries.exists /\ d.summaries_new.exists
               /\ ColumnsV1 \subseteq d.summaries.columns
            THEN Ok([d EXCEPT !.summaries_new.rows =
                       @ \cup {[c \in d.summaries_new.columns |->
                                  IF c \in ColumnsV1 THEN r[c] ELSE ColumnDefault(c)] :
                               r \in d.summaries.rows}])
            ELSE Failed(d)
      [] MigrationStatements[k] = "drop summaries" -> DropTable(d, "summaries")
      [] MigrationStatements[k] = "rename" -> RenameTable(d, "summaries_new", "summaries")

\* conn.executescript(MIGRATION_V2_SQL): statement after statement, up to the first
\* that fails.
RECURSIVE RunMigration(_, _)
RunMigration(d, k) ==
    IF k > Len(MigrationStatements) THEN Ok(d)
    ELSE LET res == MigrationStatement(d, k)
         IN  IF res.ok THEN RunMigration(res.db, k + 1) ELSE res

\* PRAGMA table_info(summaries) lists a column named position.
PositionNeverFound(d) == FALSE
check_if_position_exists(d) ==
    d.summaries.exists /\ "position" \in d.summaries.columns

\* init_db at time t.
init_db(d, t) ==
    IF ~d.file
    THEN [RunMigration(SchemaV1(d), 1).db EXCEPT !.last_updated = t - TicksPerDay]
    ELSE IF ~check_if_position_exists(d) THEN RunMigration(d, 1).db
    ELSE d

\* The program is started on no file, or on the file of an older version.
MigrationInit ==
    /\ now = 0
    /\ db \in {NoFile} \cup
              {[file |-> TRUE, summaries |-> SchemaTable(ColumnsV1, rows),
                summaries_new |-> Absent, last_updated |-> 0 - TicksPerDay] :
                  rows \in OldTables}
    /\ is_updating = FALSE
    /\ phase = "startup"
    /\ pc = [r \in Runners |-> IF r = "startup" THEN "init_db" ELSE "idle"]
    /\ stories = [r \in Runners |-> <<>>]
    /\ position = [r \in Runners |-> 0]
    /\ processed_stories = [r \in Runners |-> 0]
    /\ staged = [r \in Runners |-> {}]
    /\ handler = [h \in Threads |-> "idle"]
    /\ cron_last = 0
    /\ cycles = 0
    /\ http_response = NoResponse
    /\ StoryIdle

\* create_app: init_db().
InitDb ==
    /\ pc["startup"] = "init_db"
    /\ db' = init_db(db, now)
    /\ pc' = [pc EXCEPT !["startup"] = "create"]
    /\ UNCHANGED <<now, is_updating, phase, stories, position, processed_stories, staged,
                   handler, cron_last, cycles, http_response>>
    /\ UNCHANGED storyVars

\* The rows a cycle stages for its list: the columns of summaries_temp.
GenerationRows(top, t) ==
    {[c \in ColumnsV2 |->
        CASE c = "story_id" -> top[i]
          [] c = "title" -> "title"
          [] c = "url" -> "url"
          [] c = "points" -> "1"
          [] c = "comment_count" -> 0
          [] c = "summary" -> "summary"
          [] c = "position" -> i - 1
          [] c = "created_at" -> t] : i \in DOMAIN top}

\* create_app: update_summaries(), start to end: it swaps in what it staged, or it
\* ends without a swap.
StartupCycle ==
    /\ pc["startup"] = "create"
    /\ \E top \in TopStories :
         IF top # <<>> /\ db.summaries.exists
         THEN \/ /\ db' = [db EXCEPT !.summaries = SchemaTable(ColumnsV2, GenerationRows(top, now)),
                                     !.last_updated = now]
                 /\ pc' = [pc EXCEPT !["startup"] = "published"]
              \/ /\ pc' = [pc EXCEPT !["startup"] = "aborted"]
                 /\ UNCHANGED db
         ELSE /\ pc' = [pc EXCEPT !["startup"] = "aborted"]
              /\ UNCHANGED db
    /\ cycles' = cycles + 1
    /\ UNCHANGED <<now, is_updating, phase, stories, position, processed_stories, staged,
                   handler, cron_last, http_response>>
    /\ UNCHANGED storyVars

\* The program is stopped and started again (run.py).
Restart ==
    /\ pc["startup"] \in {"published", "aborted"}
    /\ cycles < MaxCycles
    /\ pc' = [pc EXCEPT !["startup"] = "init_db"]
    /\ UNCHANGED <<now, db, is_updating, phase, stories, position, processed_stories,
                   staged, handler, cron_last, cycles, http_response>>
    /\ UNCHANGED storyVars

MigrationNext ==
    \/ InitDb
    \/ StartupCycle
    \/ Restart

SpecMigration == MigrationInit /\ [][MigrationNext]_vars

\* ------------------------------------------------------------------ properties
\* Runner r takes a step of update_summaries.
Moves(r) == pc'[r] # pc[r] \/ position'[r] # position[r]

\* Runner r is executing update_summaries.
Running(r) == pc[r] # "idle"

\* Runner r commits the table swap.
Commits(r) == pc[r] = "loop" /\ pc'[r] = "published"

\* Runner r has gone through its whole list.
LoopOver(r) == pc[r] = "loop" /\ position[r] = Len(stories[r])

\* C1: whatever a reader of /api/summaries is handed is the whole generation that
\* is published at that moment: every record of the summaries table, no fewer.
C1_ReaderSeesWholeGeneration ==
    http_response.kind = "summaries" => Range(http_response.body) = db.summaries.rows

C3_OneTriggeredCycle == Cardinality({t \in Threads : Running(t)}) <= 1

\* C4: an execution of update_summaries started by create_app or by the cron job
\* is never active together with another execution, whoever started that one
\* (two executions started by requests are the case of C3).
C4_OneCycleAtATime ==
    \A r \in {"startup", "cron"}, q \in Runners : (Running(r) /\ Running(q)) => r = q

\* C5: last_update changes only in the step that commits a table swap, the step
\* in which the staging table becomes the summaries table.
C5_MarkerOnlyWithPublish ==
    [][db'.last_updated # db.last_updated =>
          \E r \in Runners :
              /\ Commits(r)
              /\ db.summaries_temp.exists
              /\ db'.summaries = db.summaries_temp
              /\ db'.last_updated = now]_vars

\* A swap has committed after the clock moved: last_update is no longer what
\* init_db wrote.
C5_Witness ==
    /\ db.last_updated > 0
    /\ \E r \in Runners : pc[r] = "published"

\* C6: a cycle publishes only if it staged a story, and what it makes visible is
\* exactly the set of records it staged itself.
C6_PublishesOwnRecords ==
    [][\A r \in Runners :
          Commits(r) => /\ processed_stories[r] > 0
                        /\ db'.summaries.rows = staged[r]]_vars

\* C7: a cycle that staged no story never attempts the swap: none of its steps
\* changes the summaries table or last_update, and its last step leaves no
\* staging table.
C7_NoStoriesNoChange ==
    [][\A r \in Runners :
          /\ (pc[r] \in {"create", "loop"} /\ Moves(r) /\ processed_stories'[r] = 0) =>
                /\ db'.summaries = db.summaries
                /\ db'.last_updated = db.last_updated
          /\ (LoopOver(r) /\ processed_stories[r] = 0 /\ Moves(r)) =>
                /\ pc'[r] = "aborted"
                /\ ~db'.summaries_temp.exists]_vars

\* Every story of a non-empty list was skipped, over a published generation.
C7_Witness ==
    \E r \in Runners :
        /\ pc[r] = "aborted"
        /\ position[r] > 0
        /\ processed_stories[r] = 0
        /\ db.summaries.rows # {}
        /\ ~db.summaries_temp.exists

\* C8: as long as no cycle publishes, get_cached_summaries keeps returning the
\* same records, whatever else happens and however much time passes.
C8_ReadStableUntilPublish ==
    [][db'.summaries = db.summaries =>
          CachedSummaries(db', now') = CachedSummaries(db, now)]_vars

\* C9: each record of the generation a cycle publishes has as position the index
\* of its story in that cycle's list, and the positions of the visible generation
\* are pairwise distinct.
C9_PositionsAreRanks ==
    [][/\ \A r \in Runners :
             Commits(r) =>
                \A rec \in db'.summaries.rows :
                    /\ rec.position + 1 \in DOMAIN stories[r]
                    /\ stories[r][rec.position + 1] = rec.story_id
       /\ \A a, b \in db'.summaries.rows : a.position = b.position => a = b]_vars

\* C10, as stated: a cycle in which one story failed and another was processed
\* successfully ends with that other story published.
C10_OtherStoriesPublished ==
    \A r \in Runners :
        (pc[r] \in {"cleanup", "aborted"} /\ position[r] > processed_stories[r]) =>
            processed_stories[r] = 0

\* C10, amended: a story that fails is skipped and touches nothing, the loop goes
\* on with the next index, a story that succeeds is in the staging table after its
\* step, and a cycle that staged at least one story goes on to the swap, which
\* makes the staging table the summaries table if it commits.
C10_FailureSkipsOneStory ==
    [][\A r \in Runners :
          /\ (pc[r] = "loop" /\ position[r] < Len(stories[r]) /\ Moves(r)) =>
                /\ pc'[r] = "loop"
                /\ stories'[r] = stories[r]
                /\ position'[r] = position[r] + 1
                /\ \/ processed_stories'[r] = processed_stories[r] /\ db' = db
                   \/ /\ processed_stories'[r] = processed_stories[r] + 1
                      /\ db'.summaries_temp.exists
                      /\ StagedRecord(r, position[r]) \in db'.summaries_temp.rows
          /\ (LoopOver(r) /\ processed_stories[r] > 0 /\ Moves(r)) =>
                /\ pc'[r] \in {"published", "cleanup"}
                /\ pc'[r] = "published" => db'.summaries = db.summaries_temp]_vars

\* The first story of a list failed, the second was staged, and the cycle published.
C10_Witness ==
    \E r \in Runners :
        /\ pc[r] = "published"
        /\ position[r] > processed_stories[r]
        /\ \E rec \in db.summaries.rows : rec.position > 0

\* C11: the step that ends a cycle started through trigger_update, whether the cycle
\* published or aborted (no stories, or an exception), leaves is_updating false, so
\* trigger_update's `if is_updating:` is false for a request that comes next.
C11_FlagResetAfterCycle ==
    [][\A t \in Threads :
          (Running(t) /\ pc'[t] = "idle") =>
              /\ pc[t] \in {"published", "aborted"}
              /\ ~is_updating']_vars

\* A triggered cycle has come and gone (the cron job has not fired, yet a cycle beyond
\* the startup one was started), nothing runs and the flag is down.
C11_Witness ==
    /\ phase = "serving"
    /\ cron_last = 0
    /\ cycles >= 2
    /\ \A r \in Runners : pc[r] = "idle"
    /\ \A h \in Threads : handler[h] = "idle"
    /\ ~is_updating

\* C12: the value /api/update_status reports is true exactly when some execution of
\* update_summaries is active, whoever started it.
C12_StatusIffCycleActive ==
    http_response.kind = "update_status" =>
        (http_response.body[1] <=> \E r \in Runners : Running(r))

\* The request went through and the payload is what the item endpoint sends: an item,
\* or null for an id it does not know (which decodes to None).
Successful(answer) ==
    ~answer.raises /\ answer.status_code = 200 /\ answer.body \in {"object", "null"}

\* C13: fetch_item never raises: a network error, a status other than 200 or a
\* malformed payload gives None, and a successful fetch gives the decoded item.
C13_FetchItemNeverRaises ==
    item.called =>
        /\ ~item.result.raised
        /\ Successful(item.answer) => item.result.value = item.answer.data
        /\ ~Successful(item.answer) => item.result.value = None

\* A 200 answer whose body is not JSON has given None.
C13_Witness ==
    /\ item.called
    /\ ~item.answer.raises
    /\ item.answer.status_code = 200
    /\ item.answer.body = "invalid"
    /\ item.result = Return(None)

\* The comments fetch_comments keeps: fetched, neither deleted nor dead, replies to
\* the story within its first MAX_COMMENTS_PER_STORY kids or to a kept comment.
RECURSIVE Survives(_, _)
Survives(remote, c) ==
    LET it == remote.items[c]
    IN  /\ c \notin remote.down
        /\ ~it.deleted
        /\ ~it.dead
        /\ IF it.parent = StoryItem
           THEN /\ StoryItem \notin remote.down
                /\ c \in Range(Take(remote.items[StoryItem].kids, MAX_COMMENTS_PER_STORY))
           ELSE Survives(remote, it.parent)
Survivors(remote) == {c \in CommentsOf(remote) : Survives(remote, c)}

\* C14 (as stated): when every request succeeds and the story has no more than
\* MAX_COMMENTS_PER_STORY top-level comments, the flattened sequence is as long as
\* the story's tree has comments that are neither deleted nor dead.
C14_LengthCountsLiveComments ==
    (/\ comments.called
     /\ hn.down = {}
     /\ Len(hn.items[StoryItem].kids) <= MAX_COMMENTS_PER_STORY) =>
        Len(comments.result) =
            Cardinality({c \in CommentsOf(hn) :
                            ~hn.items[c].deleted /\ ~hn.items[c].dead})

\* C14 (amended): the flattened sequence lists each kept comment once, the kept ones
\* being those fetched, not deleted, not dead, and reached through kept comments from
\* one of the story's first MAX_COMMENTS_PER_STORY kids.
C14_LengthCountsSurvivors ==
    comments.called =>
        /\ Len(comments.result) = Cardinality(Survivors(hn))
        /\ {comments.result[i].id : i \in DOMAIN comments.result} = Survivors(hn)

\* A live reply to a dead comment is left out, next to a kept comment.
C14_Witness ==
    /\ comments.called
    /\ Len(comments.result) > 0
    /\ \E c \in CommentsOf(hn) :
           /\ ~hn.items[c].deleted /\ ~hn.items[c].dead
           /\ c \notin hn.down
           /\ hn.items[c].parent # StoryItem
           /\ hn.items[hn.items[c].parent].dead
           /\ \A i \in DOMAIN comments.result : comments.result[i].id # c

\* summarize_comments has returned the record of a summary with citations resolved.
Resolved == summary # NoCall /\ ~summary.value.failed
\* The text process_gpt_response returned.
Processed == summary.value.summary

\* int(num) for a digit string.
RECURSIVE Val(_)
Val(num) ==
    IF num = <<>> THEN 0
    ELSE Len(DigitChars) * Val(SubSeq(num, 1, Len(num) - 1))
             + (CHOOSE d \in 0..(Len(DigitChars) - 1) : DigitChars[d + 1] = num[Len(num)])
\* num is a number as the prompts print it.
Canonical(num) == num = Str(Val(num))
InRange(num, cs) == Val(num) \in DOMAIN cs

\* For each number of l that is the index of a comment, the link to that comment.
RECURSIVE LinksByIndex(_, _)
LinksByIndex(l, cs) ==
    IF l = <<>> THEN <<>>
    ELSE (IF InRange(Head(l), cs) THEN Link(cs[Val(Head(l))].id, Head(l)) ELSE <<>>)
             \o LinksByIndex(Tail(l), cs)

\* The links of a text: the target and the label of each anchor, in order.
RECURSIVE LinksOf(_, _)
LinksOf(text, i) ==
    IF i > Len(text) THEN <<>>
    ELSE IF text[i] = LinkOpen
         THEN LET j == DigitsEnd(text, i + 1)
              IN  <<[target |-> SubSeq(text, i + 1, j - 1),
                     label |-> SubSeq(text, j + 2, DigitsEnd(text, j + 2) - 1)]>>
                      \o LinksOf(text, j)
         ELSE LinksOf(text, i + 1)

\* C15: within one summarize_comments call the number before a comment in the draft
\* prompt, the number before it in the citation prompt and the key of comment_map
\* are one and the same for each comment: i for the i-th entry of the sequence.
C15_CitationIndexStable ==
    (Len(llm_calls) = 2 /\ Resolved) =>
        LET cs == comments.result
            draft == llm_calls[1].comment_texts
            citation == llm_calls[2].comment_texts
        IN  /\ DOMAIN draft = DOMAIN cs
            /\ citation = draft
            /\ DOMAIN CommentMap(cs) = {draft[i].number : i \in DOMAIN cs}
            /\ \A i \in DOMAIN cs :
                   /\ draft[i].number = Str(i)
                   /\ draft[i].id = cs[i].id
                   /\ CommentMap(cs)[draft[i].number] = cs[i].id

\* Both calls were made for a sequence in which a comment's id is not its index.
C15_Witness ==
    /\ Len(llm_calls) = 2
    /\ Resolved
    /\ Len(comments.result) >= 2
    /\ \E i \in DOMAIN comments.result : comments.result[i].id # i

\* For each number of l that is the index of a comment, in order: the id of that
\* comment as the target, the number as the label.
RECURSIVE TargetsByIndex(_, _)
TargetsByIndex(l, cs) ==
    IF l = <<>> THEN <<>>
    ELSE (IF InRange(Head(l), cs)
          THEN <<[target |-> Str(cs[Val(Head(l))].id), label |-> Head(l)]>>
          ELSE <<>>) \o TargetsByIndex(Tail(l), cs)

\* C16: every marker [i] with i the index of a comment, written as the prompts write
\* it, becomes a link to the id of the i-th entry of the flattened sequence, and the
\* text has no other link.
C16_InRangeMarkersLinked ==
    (/\ Resolved
     /\ written.form = "brackets"
     /\ \A k \in DOMAIN written.numbers : Canonical(written.numbers[k])) =>
        /\ LinksOf(Processed, 1) = TargetsByIndex(written.numbers, comments.result)
        /\ Processed = written.pre \o LinksByIndex(written.numbers, comments.result)
                            \o written.post

\* The sequence is [top1, reply of top1, top2], the text is [1][3], and the output is
\* the link to top1 followed by the link to top2.
C16_Witness ==
    /\ Resolved
    /\ Len(comments.result) = 3
    /\ comments.result[1].depth = 0
    /\ comments.result[2].depth = 1
    /\ comments.result[2].parent = comments.result[1].id
    /\ comments.result[3].depth = 0
    /\ final_summary = Brackets(<<Str(1), Str(3)>>)
    /\ Processed = Link(comments.result[1].id, Str(1)) \o Link(comments.result[3].id, Str(3))
    /\ \A k \in DOMAIN LinksOf(Processed, 1) :
           LinksOf(Processed, 1)[k].target # Str(comments.result[2].id)

\* l without the numbers that are no index of a comment.
InRangeOnly(l, cs) == SelectSeq(l, LAMBDA num : InRange(num, cs))

\* C17: a marker whose number k is outside 1..n yields no link and is removed, and
\* the rest of the text is resolved as it is without that marker.
C17_OutOfRangeDropped ==
    (Resolved /\ written.form = "brackets") =>
        LET cs == comments.result
        IN  /\ Processed =
                   process_gpt_response(
                       written.pre \o Brackets(InRangeOnly(written.numbers, cs))
                           \o written.post, cs)
            /\ \A k \in DOMAIN LinksOf(Processed, 1) :
                   InRange(LinksOf(Processed, 1)[k].label, cs)
            /\ InRangeOnly(written.numbers, cs) = <<>> =>
                   Processed = written.pre \o written.post

\* A text cited a number beyond the last comment next to the number of a comment, and
\* the output has the one link.
C17_Witness ==
    /\ Resolved
    /\ written.form = "brackets"
    /\ Len(comments.result) >= 1
    /\ written.numbers = <<Str(Len(comments.result) + 1), Str(1)>>
    /\ Len(LinksOf(Processed, 1)) = 1
    /\ LinksOf(Processed, 1)[1].label = Str(1)

IsGroupBody(b) ==
    /\ b # <<>>
    /\ IsDigit(b[1])
    /\ IsDigit(b[Len(b)])
    /\ \A k \in DOMAIN b :
           \/ IsDigit(b[k])
           \/ b[k] = "," /\ k > 1 /\ IsDigit(b[k - 1])
           \/ b[k] \in Whitespace /\ k > 1 /\ (b[k - 1] = "," \/ b[k - 1] \in Whitespace)

\* The text has a bracketed index or a parenthetical index group.
HasMarker(text) ==
    \E i, j \in DOMAIN text :
        /\ i + 1 < j
        /\ \/ /\ text[i] = "[" /\ text[j] = "]"
              /\ \A k \in (i + 1)..(j - 1) : IsDigit(text[k])
           \/ /\ text[i] = "(" /\ text[j] = ")"
              /\ IsGroupBody(SubSeq(text, i + 1, j - 1))

\* C19: a text with no citation marker comes back from process_gpt_response as it is.
C19_NoMarkerNoChange ==
    (Resolved /\ ~HasMarker(final_summary)) => Processed = final_summary

\* A text of brackets and a digit that make no marker came back unchanged.
C19_Witness ==
    /\ Resolved
    /\ ~HasMarker(final_summary)
    /\ {"[", "]", "1"} \subseteq Range(final_summary)
    /\ Processed = final_summary

\* The text the except clause of summarize_comments writes.
IsFailureText(text) == text # <<>> /\ text[1] = "Error generating summary: "

NoKids(remote) == remote # <<>> /\ remote.items[StoryItem].kids = <<>>

ReadHandlerStep ==
    http_response'.kind \in {"summaries", "update_status", "last_update"}

\* C22: a step of get_summaries, get_update_status or get_last_update leaves the
\* tables, the last_update row and is_updating as they were, and every step that
\* changes a table or last_update is a step of a runner inside update_summaries.
C22_ReadHandlersReadOnly ==
    [][/\ ReadHandlerStep => (db' = db /\ is_updating' = is_updating)
       /\ db' # db => \E r \in Runners : Running(r) /\ Moves(r)]_vars

\* /api/summaries has answered with a published record while a cycle had records
\* staged, and everything is still there.
C22_Witness ==
    /\ http_response.kind = "summaries"
    /\ http_response.body # <<>>
    /\ db.summaries.rows # {}
    /\ db.summaries_temp.exists
    /\ db.summaries_temp.rows # {}
    /\ \E r \in Runners : Running(r)

\* The ids of a sequence of flattened comments.
Ids(cs) == [i \in DOMAIN cs |-> cs[i].id]

\* Comment c was requested, the request was answered, and c is neither deleted nor
\* dead; and the same goes for every comment c is below.
RECURSIVE Kept(_, _, _)
Kept(remote, reqs, c) ==
    /\ c \in reqs
    /\ c \notin remote.down
    /\ ~remote.items[c].deleted
    /\ ~remote.items[c].dead
    /\ remote.items[c].parent # StoryItem => Kept(remote, reqs, remote.items[c].parent)

\* C23: fetch_comments requests at most MAX_COMMENTS_PER_STORY of the story's kids,
\* the first ones; its result holds exactly the comments that were fetched and are
\* neither deleted nor dead, all the way up to the story; and it requests no comment
\* that is below a discarded one.
C23_KeptIffFetchedAlive ==
    comments.called =>
        /\ requests \cap Range(hn.items[StoryItem].kids) \subseteq
               Range(Take(hn.items[StoryItem].kids, MAX_COMMENTS_PER_STORY))
        /\ Cardinality(requests \cap Range(hn.items[StoryItem].kids))
               <= MAX_COMMENTS_PER_STORY
        /\ Range(Ids(comments.result)) = {c \in CommentsOf(hn) : Kept(hn, requests, c)}
        /\ \A c \in requests \ {StoryItem} :
               hn.items[c].parent # StoryItem =>
                   Kept(hn, requests, hn.items[c].parent)

\* One of the story's kids is dead and has a live reply, which was not requested,
\* next to a kept thread.
C23_Witness ==
    /\ comments.called
    /\ Len(comments.result) > 0
    /\ \E c \in CommentsOf(hn) :
           /\ hn.items[c].parent # StoryItem
           /\ hn.items[hn.items[c].parent].dead
           /\ hn.items[c].parent \in requests
           /\ ~hn.items[c].deleted /\ ~hn.items[c].dead
           /\ c \notin requests

\* The pre-order walk of the kept comments below the items ids, in the order of ids:
\* a kept comment, then the walk of its kids, then the rest of ids.
RECURSIVE PreOrderWalk(_, _)
PreOrderWalk(remote, ids) ==
    IF ids = <<>> THEN <<>>
    ELSE (IF Survives(remote, Head(ids))
          THEN <<Head(ids)>> \o PreOrderWalk(remote, remote.items[Head(ids)].kids)
          ELSE <<>>) \o PreOrderWalk(remote, Tail(ids))

\* C24: whatever the order in which the pool's tasks started and finished, the
\* sequence fetch_comments returns is the pre-order depth-first walk of the kept
\* comments, the story's kids and each comment's replies taken in the order of
\* `kids`; it is what the tasks run one after another in that order give.
C24_PreOrderWhateverTheSchedule ==
    comments.called =>
        /\ Ids(comments.result) = PreOrderWalk(hn, hn.items[StoryItem].kids)
        /\ comments.result = fetch_comments(hn)

\* The second task finished before the first, both running at once; the story lists
\* its kids against the order of their ids, and the first of them has a reply.
C24_Witness ==
    /\ comments.called
    /\ pool # NoCall
    /\ pool.started = <<1, 2>>
    /\ pool.finished = <<2, 1>>
    /\ Len(comments.result) = 3
    /\ comments.result[1].id > comments.result[3].id
    /\ comments.result[2].depth = 1
    /\ comments.result[3].depth = 0

\* The number of comments comment c is below.
RECURSIVE AncestorCount(_, _)
AncestorCount(remote, c) ==
    IF remote.items[c].parent = StoryItem THEN 0
    ELSE 1 + AncestorCount(remote, remote.items[c].parent)

\* C25: in the sequence fetch_comments returns, the depth of an entry is the number
\* of comments it is below; an entry of depth 0 replies to the story, an entry of
\* depth d > 0 to an earlier entry of depth d - 1; and the depth goes up by at most
\* one from an entry to the next.
C25_DepthIsAncestorCount ==
    comments.called =>
        \A i \in DOMAIN comments.result :
            LET entry == comments.result[i]
            IN  /\ entry.depth = AncestorCount(hn, entry.id)
                /\ entry.depth = 0 => entry.parent = StoryItem
                /\ entry.depth > 0 =>
                       \E j \in 1..(i - 1) :
                           /\ comments.result[j].id = entry.parent
                           /\ comments.result[j].depth = entry.depth - 1
                /\ i > 1 => entry.depth <= comments.result[i - 1].depth + 1

\* A reply to a reply has been returned, at depth 2.
C25_Witness ==
    /\ comments.called
    /\ \E i \in DOMAIN comments.result : comments.result[i].depth = 2
    /\ hn.down = {}

\* s is the beginning of t.
IsPrefix(s, t) == Len(s) <= Len(t) /\ s = SubSeq(t, 1, Len(s))

\* The caps MAX_COMMENTS_PER_STORY may be set to.
Caps == 0..MaxComments

\* C26: for the same remote data, what fetch_comments returns under a cap is the
\* beginning of what it returns under any larger cap, so a comment returned under
\* both has the same index in both; the call that was made is one of these.
C26_SmallerCapIsPrefix ==
    comments.called =>
        /\ comments.result = FetchCommentsCapped(hn, MAX_COMMENTS_PER_STORY)
        /\ \A k1, k2 \in Caps :
               k1 <= k2 =>
                   LET s == FetchCommentsCapped(hn, k1)
                       t == FetchCommentsCapped(hn, k2)
                   IN  /\ IsPrefix(s, t)
                       /\ \A i \in DOMAIN s, j \in DOMAIN t :
                              s[i].id = t[j].id => i = j

\* A cap of 1 keeps a comment and its reply, and the cap of the call one more thread.
C26_Witness ==
    /\ comments.called
    /\ Len(FetchCommentsCapped(hn, 1)) = 2
    /\ FetchCommentsCapped(hn, 1)[2].depth = 1
    /\ Len(comments.result) = 3
    /\ comments.result[3].depth = 0

\* C27: every prompt summarize_comments sends renders at most
\* MAX_COMMENTS_PER_STORY comments.
C27_PromptRendersAtMostCap ==
    \A i \in DOMAIN llm_calls :
        Len(llm_calls[i].comment_texts) <= MAX_COMMENTS_PER_STORY

\* C28 (as stated): a cycle goes through at most MAX_STORIES stories, one at a time
\* in the order of the list, and the generation a cycle publishes has at most
\* MAX_STORIES records.
C28_AtMostMaxStories ==
    [][\A r \in Runners :
          /\ Len(stories'[r]) <= MAX_STORIES
          /\ position'[r] # position[r] =>
                 (position'[r] = 0 \/ position'[r] = position[r] + 1)
          /\ Commits(r) => Cardinality(db'.summaries.rows) <= MAX_STORIES]_vars

\* C29: the calls summarize_comments makes are the draft call and then, only if the
\* draft call returned, the citation call, whose prompt holds the text the draft
\* call wrote and the same comment rendering; the summary of the record is the
\* citation call's text with its citations resolved, and after a failed call it is
\* the failure text, with no further call.
C29_DraftThenCitation ==
    /\ Len(llm_calls) <= 2
    /\ Len(llm_calls) >= 1 =>
           /\ llm_calls[1].call = "draft"
           /\ llm_calls[1].comment_texts = CommentTexts(comments.result)
           /\ llm_calls[1].response.raised =>
                  /\ Len(llm_calls) = 1
                  /\ summary # NoCall
                  /\ summary.value.failed
    /\ Len(llm_calls) = 2 =>
           /\ llm_calls[2].call = "citation"
           /\ ~llm_calls[1].response.raised
           /\ llm_calls[2].summary = llm_calls[1].response.value
           /\ llm_calls[2].comment_texts = llm_calls[1].comment_texts
           /\ summary # NoCall
    /\ summary # NoCall =>
           IF summary.value.failed
           THEN /\ llm_calls[Len(llm_calls)].response.raised
                /\ IsFailureText(summary.value.summary)
           ELSE /\ Len(llm_calls) = 2
                /\ llm_calls[2].response = Return(final_summary)
                /\ summary.value.summary =
                       process_gpt_response(llm_calls[2].response.value, comments.result)

\* Both calls have returned: the citation call was given the draft "b" and the
\* rendering of three comments, and its citation of the third is a link.
C29_Witness ==
    /\ Resolved
    /\ Len(llm_calls) = 2
    /\ llm_calls[1].response = Return(<<"b">>)
    /\ llm_calls[2].summary = <<"b">>
    /\ Len(llm_calls[2].comment_texts) = 3
    /\ written.form = "brackets"
    /\ written.numbers = <<Str(3)>>
    /\ LinksOf(Processed, 1) # <<>>

\* C30: every request to the remote ends after a bounded wait, so that, every LLM
\* call returning, a cycle that is running eventually is published or aborted.
C30_CycleEndsDespiteSilentRemote ==
    \A r \in Runners : (pc[r] = "loop") ~> (pc[r] \in {"published", "aborted"})


\* C31: within one cycle each story is fetched once, so that the title, the points
\* and the comment count of the record and the comment tree that is summarized all
\* come from one snapshot of the story: the kids whose trees fetch_comments fetched
\* are the kids of the story the loop fetched, the one the record is made of.
C31_RecordFromOneSnapshot ==
    summary # NoCall => comments.story.kids = item.result.value.kids


\* The extractor was called for the story's URL and returned nothing.
NoArticle == article # NoCall /\ article.url # "" /\ article.content = None

\* An LLM call of this summarize_comments raised.
LlmFailed == \E k \in DOMAIN llm_calls : llm_calls[k].response.raised

\* C32 (as stated): when the extractor returns nothing for the story's URL, it was
\* called once, the article context is empty, and summarize_comments returns after
\* both LLM calls with a real summary, not the failure record.
C32_NoArticleRealSummary ==
    (NoArticle /\ summary # NoCall) =>
        /\ article.calls = 1
        /\ article.context = <<>>
        /\ Len(llm_calls) = 2
        /\ ~summary.value.failed

\* C32 (amended): when the extractor returns nothing for the story's URL, it was
\* called once and the article context is empty; summarize_comments goes on to the
\* LLM calls, and what it returns is the failure record only if an LLM call raised:
\* if both calls return, both were made and the record holds a real summary.
C32_NoArticleNoObstacle ==
    NoArticle =>
        /\ article.calls = 1
        /\ article.context = <<>>
        /\ summary = NoCall => Len(llm_calls) < 2 /\ ~LlmFailed
        /\ summary # NoCall =>
              /\ summary.value.failed <=> LlmFailed
              /\ ~LlmFailed => Len(llm_calls) = 2

\* The extractor returned nothing, both calls were made and the summary is real.
C32_Witness ==
    /\ NoArticle
    /\ summary # NoCall
    /\ Len(llm_calls) = 2
    /\ ~summary.value.failed


\* C33: when the text holds a group in which some entry is not a number, such as
\* (1, x, 3), process_gpt_response does not raise, writes no link for that entry, and
\* the entry is dropped: it does not occur in the output.
C33_NonDigitEntryDropped ==
    (summary # NoCall /\ written # NoCall /\ written.form = "malformed") =>
        /\ ~summary.value.failed
        /\ \A k \in DOMAIN written.numbers :
              ~IsNumber(written.numbers[k]) =>
                 \A i \in DOMAIN Processed : <<Processed[i]>> # written.numbers[k]


\* The row r with position p.
WithPosition(r, p) ==
    [c \in DOMAIN r \cup {"position"} |-> IF c = "position" THEN p ELSE r[c]]

\* C34: init_db on a file whose summaries table has no position column leaves a
\* summaries table that holds each of the old rows, every field as it was, with
\* position 0, and no other row; init_db on a file whose summaries table has the
\* column changes nothing in the database.
C34_MigrationKeepsRows ==
    [][(pc["startup"] = "init_db" /\ pc'["startup"] = "create" /\ db.file) =>
          IF "position" \in db.summaries.columns
          THEN db' = db
          ELSE /\ db'.summaries =
                    SchemaTable(ColumnsV2,
                                {WithPosition(r, 0) : r \in db.summaries.rows})
               /\ db'.last_updated = db.last_updated]_vars

\* The two rows of an older version are there with position 0 after init_db ran on
\* them, a cycle ended without a swap, and init_db ran again.
C34_Witness ==
    /\ pc["startup"] = "create"
    /\ cycles = 1
    /\ db.file
    /\ db.summaries.columns = ColumnsV2
    /\ Cardinality(db.summaries.rows) = MaxStoryId
    /\ \A r \in db.summaries.rows : r["position"] = 0 /\ r["url"] = "NULL"


\* No execution of update_summaries is under way.
NoCycleRunning == \A r \in Runners : ~Running(r)

\* Runner r creates the staging table and enters its loop.
StartsStaging(r) == pc[r] = "create" /\ pc'[r] = "loop"

\* C35: after every step, whatever the cycles did (published, aborted with no story,
\* aborted by a failed swap), the table summaries exists; when no cycle is running
\* neither summaries_temp nor summaries_old exists; and so the staging table of a
\* cycle that starts is empty.
C35_CleanBetweenCycles ==
    [][/\ db'.summaries.exists
       /\ NoCycleRunning' => ~db'.summaries_temp.exists /\ ~db'.summaries_old.exists
       /\ \A r \in Runners : StartsStaging(r) => db'.summaries_temp.rows = {}]_vars


\* The records of a table that are about story id.
RecordsOf(table, id) == {x \in table.rows : x.story_id = id}

\* C36: after every step summaries and summaries_temp each hold at most one record
\* per story_id; and when a cycle stages the story at an index of its list, the
\* staging table then holds one record of that story, the one with this index as
\* position: staged again further down the list, a story's record is replaced and
\* carries the later position.
C36_OneRecordPerStory ==
    [][/\ \A id \in StoryIds :
            /\ Cardinality(RecordsOf(db'.summaries, id)) <= 1
            /\ Cardinality(RecordsOf(db'.summaries_temp, id)) <= 1
       /\ \A r \in Runners :
            processed_stories'[r] = processed_stories[r] + 1 =>
                \E x \in db'.summaries_temp.rows :
                    /\ RecordsOf(db'.summaries_temp, stories[r][position[r] + 1]) = {x}
                    /\ x.position = position[r]]_vars

\* A cycle has staged both entries of a list that names one story twice: one record
\* is left, with the second index.
C36_Witness ==
    \E r \in Runners :
        /\ Len(stories[r]) = MAX_STORIES
        /\ \A i \in DOMAIN stories[r] : stories[r][i] = stories[r][1]
        /\ position[r] = MAX_STORIES
        /\ processed_stories[r] = MAX_STORIES
        /\ \E x \in db.summaries_temp.rows :
              /\ db.summaries_temp.rows = {x}
              /\ x.story_id = stories[r][1]
              /\ x.position = MAX_STORIES - 1

====
